---- MODULE Spec2Model ----
(***************************************************************************)
(* write-tracer: the kernel probes (sys_enter_write, sched_process_fork,   *)
(* sched_process_exit) over the tracked_pids hash map and the events ring, *)
(* and the user-space PID registry (internal/pidmgr) that enrolls and      *)
(* removes thread ids in that map.                                         *)
(*                                                                         *)
(* Registry methods hold PIDRegistry.mu for their whole body, so at most   *)
(* one of them is in progress; the kernel hooks and the traced processes   *)
(* run concurrently with it.  A method is therefore modelled as a sequence *)
(* of steps, one per /proc read or map syscall together with the local     *)
(* computation that follows it, that the hooks interleave with; the        *)
(* position is kept in mu.                                                 *)
(***************************************************************************)
EXTENDS Integers, Sequences, FiniteSets, TLC

\* ------------------------------------------------------------------ bounds
\* Thread ids of the system are 1..MaxTid; a tid is handed out once.
MaxTid == 3
\* Capacity of the tracked_pids map (10240 in the source), scaled so that the
\* system can hold more threads than the map has room for.
MAX_TRACKED_THREADS == 2
\* Records the events ring has room for (RINGBUF_SIZE / record size, scaled).
RingCap == 1
\* Successful registrations in one run (RegisteredAt is their logical time).
MaxClock == 2
\* Capacity of eventChan (1024 in the source), scaled.
QueueCap == 2
\* Records the ring reader decodes in one run.
MaxEvents == 4
\* Lines the dispatcher hands to the file writer in one run.
MaxWrites == 10
\* Largest rotation threshold (--max-records-file-output) of a run.
MaxRecords == 3
\* Largest backup limit a writer is constructed with.
MaxBackups == 2
\* Lines of a file an earlier run left at <path>.
OldLines == 2
\* Bytes of a payload before the fill byte.
MaxPayload == 2
\* The goroutines that call the registry concurrently.
MaxCallers == 3
\* Failures of the file system during the Writes of a run.
MaxFaults == 2
\* Writes of the traced process while the tracer is being stopped.
StopEvents == 2

\* ------------------------------------------------------- program constants
MAX_FDS == 64
\* --max-records-file-output when the flag is absent or 0.
DefaultMaxRecords == 1000
\* The backups shiftBackups keeps when maxBackups is not positive.
DefaultMaxBackups == 1000
\* config.MaxDataSize and MAX_DATA_SIZE: the bytes of the data field.
MaxDataSize == 256
\* The base of the limbs unsigned integers are held in.
Limb == 65536
\* utf8.RuneError, U+FFFD.
RuneError == 65533
\* binary.Size of WriteEvent and sizeof(struct write_event), in bytes:
\* 8 + 8 + 4 + 4 + 4 + 4 + 16 + 256.
EventSize == 304
\* The period main gives the liveness monitor, in seconds.
checkInterval == 5
\* --tracking-interval when the option is not given or 0, in seconds.
DefaultTrackingInterval == 5

Tids == 1..MaxTid
\* A 64-bit syscall argument as its two 32-bit halves, and its truncation to
\* a __u32.
U64(hi, lo) == [hi |-> hi, lo |-> lo]
Lo32(x) == x.lo
\* File descriptor arguments a write syscall is called with (args[0] is a
\* 64-bit slot): 0, 1, 2 and 2^32 + 1, which has the low 32 bits of fd 1.
FdArgs == {U64(0, 0), U64(0, 1), U64(0, 2), U64(1, 1)}
\* The value lastWrite holds while no probe invocation is at its return.
NoWrite ==
    [tid |-> 0, fd |-> U64(0, 0), path |-> "none", ring |-> << >>, out |-> << >>]
\* --file-descriptors lists the configurations are drawn from.
FdLists == {<< >>, <<1>>, <<2, 1>>}

VARIABLES
    task,         \* the system's threads: tid -> [st, tgid, lin]
    tracked_pids, \* keys of the kernel hash map tracked_pids
    cfg,          \* config_map[0]: [target_pid, num_fds, target_fds]
    ring,         \* submitted, not yet consumed records of the events ring
    lastWrite,    \* the trace_write_enter invocation that is at its return
    trackedPids,  \* PIDRegistry.trackedPids: pid -> TrackedProcess
    mu,           \* holder of PIDRegistry.mu, its position, its result
    clock,        \* time.Now() as the number of registrations so far
    opts,         \* config.Config, the options of the command line
    timer,        \* seconds since the liveness ticker fired (sweep) and
                  \* seconds the registered process 1 has been dead (dead)
    queue,        \* eventChan: decoded events waiting for the dispatcher
    out,          \* what has left the dispatcher: the lines printed on
                  \* stdout, the lines handed to the file writer, the Loki
                  \* pushes in flight and delivered, the Posts made, the
                  \* writeCalls counter,
                  \* the "Event channel full" and "File write failed"
                  \* warnings logged
    hist,         \* the events the ring reader decoded and the events the
                  \* dispatcher received, in order
    fw,           \* the dispatcher's FileWriter
    fs,           \* the files <path> (index 0) and <path>.N (index N) of the
                  \* file system: index -> lines
    fhist,        \* the Write calls, rotations and failures of the file
                  \* system so far, the failures the run can have,
                  \* whether <path> existed at start, and the last Write
                  \* call
    codec,        \* an event, the line String made of it and what a JSON
                  \* parser reads from the line
    http,         \* the request the control API is serving and its response
    callers,      \* the goroutines that call the registry: whether each is
                  \* blocked at the lock, holds it or has returned, its
                  \* call and what the call returned
    proc          \* the tracer process: where main is, the attached links,
                  \* the collection, cancellation, the dispatcher and
                  \* whether the other goroutines have returned

vars == <<task, tracked_pids, cfg, ring, lastWrite, trackedPids, mu, clock,
          opts, timer, queue, out, hist, fw, fs, fhist, codec, http, proc,
          callers>>

\* ----------------------------------------------------------------- helpers
Range(s) == {s[i] : i \in 1..Len(s)}

Min(S) == CHOOSE x \in S : \A y \in S : x <= y

RECURSIVE SortedSeq(_)
SortedSeq(S) == IF S = {} THEN << >>
                ELSE LET m == Min(S) IN <<m>> \o SortedSeq(S \ {m})

Alive(t) == task[t].st = "alive"

\* The threads of t's thread group.
Group(t) == {u \in Tids : Alive(u) /\ task[u].tgid = task[t].tgid}

\* ------------------------------------------------------ calls and returns
\* The pids a caller may pass: every tid of the system, and 0, which is never
\* a process.
PidArgs == 0..MaxTid

Idle == [op |-> "idle"]

\* Whether /proc/<pid> was there when the call in progress began.
Found(pid) == IF mu.op = "idle" THEN pid \in Tids /\ Alive(pid) ELSE mu.found

\* A call at its return: what it returns (n, err), with the registry and the
\* map as its last step found them, whether /proc/<pid> was there when the
\* call began, the tids it worked on (the /proc snapshot, or the entry's
\* ThreadIDs) and the keys it created in the map (UnregisterPID: removed from
\* it).  The caller takes the result in the next step (Return).
Returning(call, pid, n, err, tids, keys) ==
    [op |-> "done", call |-> call, pid |-> pid, n |-> n, err |-> err,
     reg |-> trackedPids, map |-> tracked_pids, found |-> Found(pid),
     tids |-> tids, keys |-> keys]

\* Nothing is at its point of return: the system runs.
\* The tracer has started and has not exited.
Started ==
    [step |-> "run", links |-> <<"write", "fork", "exit">>, closes |-> << >>,
     coll |-> "open", err |-> FALSE, cancelled |-> FALSE,
     dispatcher |-> "running", fwClosed |-> FALSE, rdClosed |-> FALSE,
     reader |-> "running", sweeper |-> "running", counter |-> "running",
     defers |-> <<"cancel", "exit", "fork", "write", "coll">>, due |-> 0]

\* The link of a probe is attached and not closed.
Attached(l) == l \in Range(proc.links) \ Range(proc.closes)

Running ==
    /\ mu.op # "done" /\ lastWrite.path = "none" /\ http.st # "answered"
    /\ proc.step \in {"run", "shutdown"}

\* ------------------------------------------------- kernel map tracked_pids
\* bpf_map_update_elem(&tracked_pids, &k, &val, BPF_ANY) / Map.Update(k, val,
\* UpdateAny): an existing key is overwritten; a new key is refused when the
\* map already holds max_entries keys.
MapUpdate(m, k) ==
    IF k \in m THEN [ok |-> TRUE, m |-> m]
    ELSE IF Cardinality(m) >= MAX_TRACKED_THREADS THEN [ok |-> FALSE, m |-> m]
    ELSE [ok |-> TRUE, m |-> m \cup {k}]

\* bpf_map_delete_elem(&tracked_pids, &k) / Map.Delete(k): fails (key does not
\* exist) when k is absent.
MapDelete(m, k) ==
    IF k \in m THEN [ok |-> TRUE, m |-> m \ {k}]
    ELSE [ok |-> FALSE, m |-> m]

\* ----------------------------------------------------------- kernel probes
\* is_target_fd: the scan of target_fds[0..MAX_FDS) that stops at num_fds.
\* The parameter is a __u32: the caller's 64-bit fd is truncated.
RECURSIVE IsTargetFdFrom(_, _, _)
IsTargetFdFrom(c, fd, i) ==
    IF i >= MAX_FDS THEN 0
    ELSE IF i >= c.num_fds THEN 0
    ELSE IF c.target_fds[i] = fd THEN 1
    ELSE IsTargetFdFrom(c, fd, i + 1)

RECURSIVE IsTargetFdAnySlot(_, _, _)
IsTargetFdAnySlot(c, fd, i) ==
    IF i >= MAX_FDS THEN 0
    ELSE IF c.target_fds[i] = fd THEN 1
    ELSE IsTargetFdAnySlot(c, fd, i + 1)

is_target_fd_all_slots(c, fd) == IsTargetFdAnySlot(c, Lo32(fd), 0)

is_target_fd(c, fd) == IsTargetFdFrom(c, Lo32(fd), 0)

\* The lookup of the writing thread in tracked_pids: by tid, not by tgid.
tracked_by_tgid(pid, tid) == pid \in tracked_pids

tracked_lookup(pid, tid) == tid \in tracked_pids

\* The path trace_write_enter takes for a write(fd, ...) by thread tid of
\* process pid: the place it returns at, or "submitted".
write_path(pid, tid, fd) ==
    IF ~tracked_lookup(pid, tid) THEN "untracked"
    ELSE IF cfg.num_fds > 0 /\ is_target_fd(cfg, fd) = 0 THEN "fd_filtered"
    ELSE IF Len(ring) >= RingCap THEN "ring_full"
    ELSE "submitted"

\* The record the probe reserves (sizeof(*event) bytes) and fills in
\* (event->fd is a __u32).
write_event(pid, tid, fd) ==
    [len |-> EventSize, pid |-> pid, tid |-> tid, fd |-> Lo32(fd)]

\* A write(2) by an alive thread: the sys_enter_write probe runs.  lastWrite
\* keeps the invocation, the path it took, the ring and the user-space
\* counters as it found them, until the syscall goes on (write_return).
trace_write_enter(t, fd) ==
    /\ Running
    /\ Attached("write")
    /\ Alive(t)
    /\ LET pid == task[t].tgid
           path == write_path(pid, t, fd)
       IN /\ lastWrite' = [tid |-> t, fd |-> fd, path |-> path, ring |-> ring,
                           out |-> out]
          /\ ring' = IF path = "submitted"
                     THEN Append(ring, write_event(pid, t, fd))
                     ELSE ring
    /\ UNCHANGED <<task, tracked_pids, cfg, opts, fw, fs, fhist, codec, http, proc, queue, out, hist, timer, trackedPids, mu, clock, callers>>

\* The probe has returned and the write syscall goes on.
write_return ==
    /\ lastWrite.path # "none"
    /\ lastWrite' = NoWrite
    /\ UNCHANGED <<task, tracked_pids, cfg, opts, fw, fs, fhist, codec, http, proc, queue, out, hist, timer, ring, trackedPids, mu, clock, callers>>

\* The user-space reader takes the oldest record off the ring.
RingRead ==
    /\ Running
    /\ ring # << >>
    /\ ring' = Tail(ring)
    /\ UNCHANGED <<task, tracked_pids, cfg, opts, fw, fs, fhist, codec, http, proc, queue, out, hist, timer, lastWrite, trackedPids, mu, clock, callers>>

fork_hook_any_parent(m, parent_tid, child_tid) == MapUpdate(m, child_tid).m

\* What the fork hook does to the map when parent_tid creates child_tid.
fork_hook(m, parent_tid, child_tid) ==
    IF parent_tid \in m THEN MapUpdate(m, child_tid).m ELSE m

\* What the exit hook does to the map when tid exits.
exit_hook(m, tid) == MapDelete(m, tid).m

\* Thread p creates a new task: a thread of its group (CLONE_THREAD) or a
\* new process.  The kernel hands out the next free tid and
\* trace_sched_process_fork runs.  lin records that the child was created in
\* a process that was in the registry and that the hook enrolled it.
trace_sched_process_fork(p, asThread) ==
    /\ Running
    /\ Alive(p)
    /\ \E c \in Tids :
        /\ task[c].st = "unborn"
        /\ \A d \in Tids : task[d].st = "unborn" => c <= d
        /\ tracked_pids' = fork_hook(tracked_pids, p, c)
        /\ task' = [task EXCEPT ![c] =
                      [st |-> "alive",
                       tgid |-> IF asThread THEN task[p].tgid ELSE c,
                       forker |-> p,
                       lin |-> /\ task[p].tgid \in DOMAIN trackedPids
                               /\ c \in tracked_pids']]
    /\ UNCHANGED <<cfg, opts, fw, fs, fhist, codec, http, proc, queue, out, hist, timer, ring, lastWrite, trackedPids, mu, clock, callers>>

\* Thread t exits and trace_sched_process_exit runs.  A group leader exits
\* last (exit_group ends the other threads first).
trace_sched_process_exit(t) ==
    /\ Running
    /\ Alive(t)
    /\ task[t].tgid = t => Group(t) = {t}
    /\ task' = [task EXCEPT ![t].st = "dead"]
    /\ tracked_pids' = exit_hook(tracked_pids, t)
    /\ UNCHANGED <<cfg, opts, fw, fs, fhist, codec, http, proc, queue, out, hist, timer, ring, lastWrite, trackedPids, mu, clock, callers>>

\* ------------------------------------------------- user-space pipeline
send_blocking(q, ev) ==
    IF Len(q) < QueueCap THEN [ok |-> TRUE, wait |-> FALSE, q |-> Append(q, ev)]
    ELSE [ok |-> FALSE, wait |-> TRUE, q |-> q]

\* The select of readRingBuffer on eventChan with a default case: the event
\* is queued when the channel has room, else the default case is taken; the
\* goroutine never waits for room.
send(q, ev) ==
    IF Len(q) < QueueCap THEN [ok |-> TRUE, wait |-> FALSE, q |-> Append(q, ev)]
    ELSE [ok |-> FALSE, wait |-> FALSE, q |-> q]

\* Lengths of the samples the decoder is given: empty, one byte short,
\* exact, one byte long, two records long.
RecordLens == {0, EventSize - 1, EventSize, EventSize + 1, 2 * EventSize}

\* A sample of n bytes is in the ring for rd.Read to return: its first
\* bytes are those of an event of thread 1.
RawSample(n, fd) ==
    /\ Running
    /\ Len(ring) < RingCap
    /\ ring' = Append(ring, [write_event(1, 1, fd) EXCEPT !.len = n])
    /\ UNCHANGED <<task, tracked_pids, cfg, opts, fw, fs, fhist, codec, http, proc, queue, out,
                   hist, timer, lastWrite, trackedPids, mu, clock, callers>>

\* binary.Read(bytes.NewReader(record.RawSample), LittleEndian, &ev): it
\* reads the EventSize bytes of the struct from the front of the sample and
\* fails when the sample ends before that (io.ReadFull); bytes of the
\* sample behind the struct are left unread.
binary_Read(raw) ==
    [err |-> raw.len < EventSize,
     ev |-> [pid |-> raw.pid, tid |-> raw.tid, fd |-> raw.fd]]

\* One round of readRingBuffer's loop: rd.Read takes the oldest record off
\* the ring, binary.Read decodes it (a failure is logged and the loop
\* continues with the next record), and the event is sent to eventChan or,
\* when the channel is full, dropped with a warning.
readRingBuffer ==
    /\ Running
    /\ proc.reader = "running"
    /\ ~proc.rdClosed
    /\ ring # << >>
    /\ Len(hist.raw) < MaxEvents
    /\ LET d == binary_Read(Head(ring))
           r == IF d.err THEN [ok |-> TRUE, wait |-> FALSE, q |-> queue]
                ELSE send(queue, d.ev)
       IN /\ ~r.wait
          /\ ring' = Tail(ring)
          /\ queue' = r.q
          /\ out' = [out EXCEPT !.dropped = IF r.ok THEN @ ELSE @ + 1]
          /\ hist' = [hist EXCEPT !.raw = Append(@, Head(ring)),
                                  !.parseErrs = IF d.err
                                                THEN @ \cup {Len(hist.raw) + 1}
                                                ELSE @,
                                  !.read = IF d.err THEN @ ELSE Append(@, d.ev),
                                  !.dropLen = IF r.ok THEN @
                                              ELSE @ \cup {Len(queue)}]
    /\ UNCHANGED <<task, tracked_pids, cfg, opts, fw, fs, fhist, codec, http, proc, timer, lastWrite, trackedPids,
                   mu, clock, callers>>

\* WriteEvent.String: the JSON line of the event's fields.
String(ev) == <<"pid", ev.pid, "tid", ev.tid, "fd", ev.fd>>

IncrementWriteCalls_on_success(n, werr) == IF werr THEN n ELSE n + 1

\* IncrementWriteCalls, which the dispatcher calls before fw.Write: the
\* counter after the call, whether the file write fails (werr) or not.
IncrementWriteCalls(n, werr) == n + 1

\* The results fw.Write can have: nil with no --file-output (nothing is
\* written), else nil or an error of the file system.
WriteErrs == IF opts.FileOutput = "" THEN {FALSE} ELSE BOOLEAN

\* One round of processEvents' loop: an event is received from eventChan,
\* its line is printed on stdout, writeCalls is incremented, the line is
\* handed to the file writer (whose error is only logged, fileErrs counts
\* the warnings), and with a Loki endpoint a goroutine is started that
\* pushes the event.
processEvents ==
    /\ Running
    /\ proc.dispatcher = "running"
    /\ queue # << >>
    /\ \E werr \in WriteErrs :
       LET ev == Head(queue)
           line == String(ev)
       IN /\ queue' = Tail(queue)
          /\ out' = [out EXCEPT
                       !.stdout = Append(@, line),
                       !.writeCalls = IncrementWriteCalls(@, werr),
                       !.file = Append(@, line),
                       !.fileErrs = IF werr THEN @ + 1 ELSE @,
                       !.pushes = IF opts.LokiEndpoint # ""
                                  THEN @ \cup {[n |-> Len(hist.taken) + 1, ev |-> ev]}
                                  ELSE @]
          /\ hist' = [hist EXCEPT !.taken = Append(@, ev)]
    /\ UNCHANGED <<task, tracked_pids, cfg, opts, fw, fs, fhist, codec, http, proc, timer, ring, lastWrite,
                   trackedPids, mu, clock, callers>>

Push_retry ==
    /\ Running
    /\ \E g \in out.pushes, ok \in BOOLEAN :
         out' = [out EXCEPT !.pushes = IF ok THEN @ \ {g} ELSE @,
                            !.posts = @ + 1,
                            !.loki = IF ok THEN Append(@, g.ev) ELSE @]
    /\ UNCHANGED <<task, tracked_pids, cfg, opts, fw, fs, fhist, codec, http, proc, timer, ring, lastWrite,
                   trackedPids, mu, clock, queue, hist, callers>>

\* A goroutine started by processEvents runs loki.Push: one Post (posts
\* counts them); the event reaches the endpoint, or the push fails (an
\* error of the transport, the timeout of a slow endpoint or a status
\* outside 2xx), which is only logged, and the goroutine ends.
Push ==
    /\ Running
    /\ \E g \in out.pushes, ok \in BOOLEAN :
         out' = [out EXCEPT !.pushes = @ \ {g},
                            !.posts = @ + 1,
                            !.loki = IF ok THEN Append(@, g.ev) ELSE @]
    /\ UNCHANGED <<task, tracked_pids, cfg, opts, fw, fs, fhist, codec, http, proc, timer, ring, lastWrite,
                   trackedPids, mu, clock, queue, hist, callers>>

\* -------------------------------------------------------------- event codec
\* Unsigned integers of the event are sequences of 16-bit limbs, the most
\* significant first: 4 limbs for a uint64, 2 for a uint32.
Zero(n) == [i \in 1..n |-> 0]

Ones(n) == [i \in 1..n |-> Limb - 1]

Small(n, v) == [i \in 1..n |-> IF i = n THEN v ELSE 0]

IsZero(x) == \A i \in 1..Len(x) : x[i] = 0

\* x divided by 10: quotient and remainder.
RECURSIVE Div10(_, _)
Div10(x, rem) ==
    IF x = << >> THEN [q |-> << >>, r |-> rem]
    ELSE LET cur == rem * Limb + Head(x)
             rest == Div10(Tail(x), cur % 10)
         IN [q |-> <<cur \div 10>> \o rest.q, r |-> rest.r]

RECURSIVE DigitsOf(_)
DigitsOf(x) ==
    IF IsZero(x) THEN << >>
    ELSE LET d == Div10(x, 0) IN Append(DigitsOf(d.q), d.r)

\* The decimal digits json.Marshal writes for an unsigned integer.
FormatUint(x) == IF IsZero(x) THEN <<0>> ELSE DigitsOf(x)

\* x * 10 + c within the width of x.
RECURSIVE MulAdd10(_, _)
MulAdd10(x, c) ==
    IF x = << >> THEN << >>
    ELSE LET v == x[Len(x)] * 10 + c
         IN Append(MulAdd10(SubSeq(x, 1, Len(x) - 1), v \div Limb), v % Limb)

RECURSIVE ParseFrom(_, _)
ParseFrom(ds, acc) ==
    IF ds = << >> THEN acc ELSE ParseFrom(Tail(ds), MulAdd10(acc, Head(ds)))

\* The unsigned integer of n limbs a JSON parser reads from the digits.
ParseUint(ds, n) == ParseFrom(ds, Zero(n))

\* The characters of a Go string as json.Marshal writes them: a byte below
\* 0x80 is its own character (escaped where JSON needs it), a two-byte
\* UTF-8 sequence is one character, and a byte that starts no valid
\* sequence is written as the replacement character U+FFFD.  A byte of
\* 0x80..0xBF right after a lead byte is the second byte of that lead's
\* sequence (a lead byte is never itself a second byte); every other byte
\* starts a character.  (Lead bytes of longer sequences are not among
\* Bytes.)
Runes(b) ==
    LET second(i) == i > 1 /\ b[i - 1] \in 194..223 /\ b[i] \in 128..191
        rune(i) ==
            IF b[i] < 128 THEN b[i]
            ELSE IF b[i] \in 194..223 /\ i < Len(b) /\ b[i + 1] \in 128..191
                 THEN (b[i] - 192) * 64 + (b[i + 1] - 128)
            ELSE RuneError
        starts == SelectSeq([i \in 1..Len(b) |-> i], LAMBDA i : ~second(i))
    IN [k \in 1..Len(starts) |-> rune(starts[k])]

\* The UTF-8 bytes of the characters a JSON parser reads from a string:
\* the encodings of the characters one after the other.
RECURSIVE EncodeRunes(_)
EncodeRunes(r) ==
    IF r = << >> THEN << >>
    ELSE IF Len(r) = 1
    THEN LET c == r[1]
         IN IF c < 128 THEN <<c>>
            ELSE IF c < 2048 THEN <<192 + (c \div 64), 128 + (c % 64)>>
            ELSE <<224 + (c \div 4096), 128 + ((c \div 64) % 64),
                   128 + (c % 64)>>
    ELSE LET h == Len(r) \div 2
         IN EncodeRunes(SubSeq(r, 1, h)) \o EncodeRunes(SubSeq(r, h + 1, Len(r)))

\* strings.TrimRight(s, "\n\r"): s up to its last byte that is neither.
TrimRight(s) ==
    LET kept == {i \in 1..Len(s) : s[i] \notin {10, 13}}
    IN IF kept = {} THEN << >>
       ELSE SubSeq(s, 1, CHOOSE i \in kept : \A j \in kept : j <= i)

\* min(e.Count, config.MaxDataSize).
DataLen(count) ==
    IF count[1] = 0 /\ count[2] = 0 /\ count[3] = 0 /\ count[4] <= MaxDataSize
    THEN count[4] ELSE MaxDataSize

\* The repository holds two internal/event: in "capped" String and
\* DataString slice Data up to min(Count, MaxDataSize), in "uncapped" up to
\* Count, and slicing the 256-byte array beyond its length panics.
DataString(e, version) ==
    IF version = "uncapped"
       /\ (~IsZero(SubSeq(e.Count, 1, 3)) \/ e.Count[4] > MaxDataSize)
    THEN [panic |-> TRUE, s |-> << >>]
    ELSE [panic |-> FALSE,
          s |-> TrimRight(SubSeq(e.Data, 1, DataLen(e.Count)))]

NoLine ==
    [timestamp |-> << >>, pid |-> << >>, tid |-> << >>, fd |-> << >>,
     count |-> << >>, data |-> << >>]

\* WriteEvent.String with all the fields of the line but comm: the numbers
\* in decimal and data as a JSON string.
StringJSON(e, version) ==
    LET d == DataString(e, version)
    IN IF d.panic THEN [panic |-> TRUE, data |-> << >>, line |-> NoLine]
       ELSE [panic |-> FALSE, data |-> d.s,
             line |-> [timestamp |-> FormatUint(e.Timestamp),
                       pid |-> FormatUint(e.PID),
                       tid |-> FormatUint(e.TID),
                       fd |-> FormatUint(e.FD),
                       count |-> FormatUint(e.Count),
                       data |-> Runes(d.s)]]

\* A JSON parser reading the line back.
ParseLine(line) ==
    [Timestamp |-> ParseUint(line.timestamp, 4),
     PID |-> ParseUint(line.pid, 2),
     TID |-> ParseUint(line.tid, 2),
     FD |-> ParseUint(line.fd, 2),
     Count |-> ParseUint(line.count, 4),
     data |-> EncodeRunes(line.data)]

\* Bytes of the payload: line feed, carriage return, 'A', a continuation
\* byte, a two-byte lead (0xC3 0xA9 is U+00E9) and 0xFF, which no UTF-8
\* sequence holds.
Bytes == {10, 13, 65, 169, 195, 255}

RECURSIVE SeqsUpTo(_, _)
SeqsUpTo(S, n) ==
    IF n = 0 THEN {<< >>}
    ELSE LET shorter == SeqsUpTo(S, n - 1)
         IN shorter \cup {Append(q, x) : q \in shorter, x \in S}

\* The Data arrays: MaxDataSize bytes, a payload of up to MaxPayload
\* bytes, then the fill byte up to the end.
DataArrays ==
    {[i \in 1..MaxDataSize |-> IF i <= Len(pl) THEN pl[i] ELSE fill] :
        pl \in SeqsUpTo(Bytes, MaxPayload), fill \in {10, 65}}

\* The values of count: 0, 1, 2, 256, 257, 8192, 2^32 and 2^64 - 1.
Counts ==
    {Small(4, 0), Small(4, 1), Small(4, 2), Small(4, MaxDataSize),
     Small(4, MaxDataSize + 1), Small(4, 8192), <<0, 1, 0, 0>>, Ones(4)}

WriteEvents ==
    {[Timestamp |-> ts, Count |-> c, PID |-> id, TID |-> id, FD |-> id,
      Data |-> d] :
        ts \in {Small(4, 1), Ones(4)}, c \in Counts,
        id \in {Zero(2), Ones(2)}, d \in DataArrays}

NoCodec ==
    [step |-> "none", version |-> "capped", e |-> << >>, data |-> << >>,
     line |-> NoLine, parsed |-> << >>]

\* The dispatcher formats an event: line := ev.String().
Format ==
    /\ codec.step = "new"
    /\ LET r == StringJSON(codec.e, codec.version)
       IN codec' = [codec EXCEPT !.step = IF r.panic THEN "panic" ELSE "formatted",
                                 !.data = r.data,
                                 !.line = r.line]
    /\ UNCHANGED <<task, tracked_pids, cfg, opts, timer, ring, lastWrite,
                   trackedPids, mu, clock, queue, out, hist, fw, fs, fhist, http, proc, callers>>

\* A consumer of the sink parses the line.
Parse ==
    /\ codec.step = "formatted"
    /\ codec' = [codec EXCEPT !.step = "parsed", !.parsed = ParseLine(codec.line)]
    /\ UNCHANGED <<task, tracked_pids, cfg, opts, timer, ring, lastWrite,
                   trackedPids, mu, clock, queue, out, hist, fw, fs, fhist, http, proc, callers>>

\* ---------------------------------------------------------------- file sink
\* The repository holds two FileWriter: one that keeps a single backup
\* (variant "two_file", NewFileWriter(path, maxRecords), the signature of
\* the call in processEvents) and one that shifts numbered backups (variant
\* "backups", NewFileWriter(path, maxRecords, maxBackups)).
NewFileWriter(variant, maxRecords, maxBackups) ==
    [variant |-> variant, maxRecords |-> maxRecords, maxBackups |-> maxBackups,
     file |-> FALSE, count |-> 0]

\* No file at <path> and no backup; a file at <path> left by an earlier
\* run, holding OldLines lines (each shown as line 0).
NoFiles == [i \in {} |-> << >>]

OldFile == [i \in {0} |-> [j \in 1..OldLines |-> 0]]

stop_on_error(dispatcher, err) == IF err # "" THEN "stopped" ELSE dispatcher

\* processEvents after fw.Write has returned: an error is logged as a
\* warning and the loop goes on.
log_error(dispatcher, err) == dispatcher

\* No Write has been called.
NoWriteCall ==
    [err |-> "", file |-> FALSE, count |-> 0, rotations |-> 0, opened |-> FALSE]

\* Before the first Write of a run that starts with the files f and in
\* which the file system fails at most maxFaults times.
NoWrites(f, maxFaults) ==
    [written |-> 0, rotations |-> 0, pre |-> f # NoFiles, faults |-> 0,
     maxFaults |-> maxFaults, errs |-> << >>, last |-> NoWriteCall]

\* The writer as constructed and the files at start; the file system does
\* not fail.
InitSink(w, f) ==
    /\ fw = w
    /\ fs = f
    /\ fhist = NoWrites(f, 0)

Max(S) == CHOOSE x \in S : \A y \in S : x >= y

\* os.Remove of the file at index a (an error when it is missing is ignored).
Remove(f, a) == [i \in DOMAIN f \ {a} |-> f[i]]

\* os.Rename of the file at index a to index b, replacing a file at b; an
\* error when a is missing is ignored.
Rename(f, a, b) ==
    IF a \notin DOMAIN f THEN f
    ELSE [i \in (DOMAIN f \ {a}) \cup {b} |-> IF i = b THEN f[a] ELSE f[i]]

\* maxBackups as shiftBackups uses it.
EffMaxBackups(maxBackups) ==
    IF maxBackups <= 0 THEN DefaultMaxBackups ELSE maxBackups

\* shiftBackups over the backup numbers S, highest first: a backup whose
\* new number exceeds maxBackups is removed, the others move up by one.
RECURSIVE ShiftFrom(_, _, _)
ShiftFrom(f, S, maxBackups) ==
    IF S = {} THEN f
    ELSE LET num == Max(S)
             g == IF num + 1 > maxBackups THEN Remove(f, num)
                  ELSE Rename(f, num, num + 1)
         IN ShiftFrom(g, S \ {num}, maxBackups)

shiftBackups(f, maxBackups) ==
    ShiftFrom(f, DOMAIN f \ {0}, EffMaxBackups(maxBackups))

\* os.OpenFile(path, O_APPEND|O_CREATE|O_WRONLY): the file is created empty
\* when it is missing and kept as it is otherwise.
OpenFile(f) ==
    IF 0 \in DOMAIN f THEN f
    ELSE [i \in DOMAIN f \cup {0} |-> IF i = 0 THEN << >> ELSE f[i]]

\* open: the file system after it.  The "backups" writer first moves an
\* existing <path> to <path>.1, behind the shifted backups.
open(w, f) ==
    IF w.variant = "backups" /\ 0 \in DOMAIN f
    THEN OpenFile(Rename(shiftBackups(f, w.maxBackups), 0, 1))
    ELSE OpenFile(f)

\* rotate: the file system after it.  The "two_file" writer removes
\* <path>.1 and renames <path> to it; the "backups" writer shifts the
\* backups and renames <path> to <path>.1; both open a new <path>.
rotate(w, f) ==
    IF w.variant = "backups"
    THEN open(w, Rename(shiftBackups(f, w.maxBackups), 0, 1))
    ELSE open(w, Rename(Remove(f, 1), 0, 1))

\* open when its os.OpenFile fails: the "backups" writer has already moved
\* an existing <path> away; no file is created.
open_failed(w, f) ==
    IF w.variant = "backups" /\ 0 \in DOMAIN f
    THEN Rename(shiftBackups(f, w.maxBackups), 0, 1)
    ELSE f

\* rotate when the os.OpenFile of its open fails; rotate ignores the error.
rotate_failed(w, f) ==
    IF w.variant = "backups"
    THEN open_failed(w, Rename(shiftBackups(f, w.maxBackups), 0, 1))
    ELSE open_failed(w, Rename(Remove(f, 1), 0, 1))

count_inc_always(c, err) == c + 1

\* w.count++ comes after the return on an error of fmt.Fprintln.
count_inc(c, err) == IF err THEN c ELSE c + 1

\* The failures of the file system a Write meets: none, os.OpenFile in its
\* open, fmt.Fprintln, os.OpenFile in the open of its rotate.
Faults == {"", "open", "write", "reopen"}

\* FileWriter.Write(line) with a path: the file is opened when the writer
\* holds none (an error of open is returned), the line is appended (an
\* error of Fprintln is returned), and when count reaches maxRecords the
\* writer rotates; open sets count to 0.  The line is the number of the
\* call.  fhist.last keeps the error the call returned, the writer's file
\* and count and the rotations as the call found them, and whether the
\* call called open; fhist.errs keeps the error of every call.  The
\* dispatcher, which made the call, logs an error and goes on.
Write ==
    /\ proc.dispatcher = "running"
    /\ fhist.written < MaxWrites
    /\ \E fault \in Faults :
       LET line == fhist.written + 1
           opens == ~fw.file
           oerr == opens /\ fault = "open"
           werr == ~oerr /\ fault = "write"
           f1 == IF ~opens THEN fs
                 ELSE IF oerr THEN open_failed(fw, fs) ELSE open(fw, fs)
           c1 == IF opens /\ ~oerr THEN 0 ELSE fw.count
           f2 == IF oerr \/ werr THEN f1 ELSE [f1 EXCEPT ![0] = Append(@, line)]
           c2 == IF oerr THEN c1 ELSE count_inc(c1, werr)
           full == ~oerr /\ ~werr /\ c2 >= fw.maxRecords
           rerr == full /\ fault = "reopen"
           err == IF oerr THEN "open" ELSE IF werr THEN "write" ELSE ""
       IN /\ fault # "" => fhist.faults < fhist.maxFaults
          /\ fault = "open" => opens
          /\ fault = "reopen" => full
          /\ fs' = IF ~full THEN f2
                   ELSE IF rerr THEN rotate_failed(fw, f2) ELSE rotate(fw, f2)
          /\ fw' = [fw EXCEPT !.file = IF full THEN ~rerr ELSE ~oerr,
                              !.count = IF full /\ ~rerr THEN 0 ELSE c2,
                              !.maxBackups =
                                  IF fw.variant = "backups"
                                     /\ (full \/ (opens /\ 0 \in DOMAIN fs))
                                  THEN EffMaxBackups(@) ELSE @]
          /\ fhist' = [fhist EXCEPT
                         !.written = line,
                         !.rotations = IF full THEN @ + 1 ELSE @,
                         !.faults = IF fault # "" THEN @ + 1 ELSE @,
                         !.errs = Append(@, err),
                         !.last = [err |-> err,
                                   file |-> fw.file, count |-> fw.count,
                                   rotations |-> fhist.rotations,
                                   opened |-> opens]]
          /\ out' = [out EXCEPT !.fileErrs = IF err # "" THEN @ + 1 ELSE @]
          /\ proc' = [proc EXCEPT !.dispatcher = log_error(@, err)]
    /\ UNCHANGED <<task, tracked_pids, cfg, opts, timer, ring, lastWrite,
                   trackedPids, mu, clock, queue, hist, codec, http, callers>>

\* ------------------------------------------------------------ PID registry
\* os.Stat("/proc/<pid>") succeeds: pid is a live task (of any thread group;
\* /proc/<tid> also resolves for a thread that is not the group leader).
processExists(pid) == pid \in Tids /\ Alive(pid)

readThreads_self(pid) == [ok |-> TRUE, tids |-> <<pid>>]

\* readThreads: the entries of /proc/<pid>/task, which lists every thread of
\* pid's thread group, in the order os.ReadDir returns them; an error when
\* the directory is missing.
readThreads(pid) ==
    IF processExists(pid)
    THEN [ok |-> TRUE, tids |-> SortedSeq(Group(pid))]
    ELSE [ok |-> FALSE, tids |-> << >>]

never_exists(pid) == FALSE

\* The "already registered" / "not registered" test on the registry map.
exists(pid) == pid \in DOMAIN trackedPids

\* The keys RegisterPID's rollback loop deletes: every tid of the snapshot.
rollback_keys(tids, inserted) == Range(tids)

\* The entry RegisterPID stores.
new_entry(pid, tids, now) ==
    [ParentPID |-> pid, ThreadIDs |-> tids, RegisteredAt |-> now]

only_entry(reg, pid, e) == [p \in {pid} |-> e]

\* The registry with pid's entry set to e.
with_entry(reg, pid, e) ==
    [p \in DOMAIN reg \cup {pid} |-> IF p = pid THEN e ELSE reg[p]]

without_none(reg, pid) == reg

without_threads(reg, pid) == [reg EXCEPT ![pid].ThreadIDs = << >>]

\* The registry without pid's entry.
without(reg, pid) == [p \in DOMAIN reg \ {pid} |-> reg[p]]

\* RegisterPID up to the snapshot: takes mu, tests the registry, reads
\* /proc/<pid>/task.
RegisterPID_Begin(pid) ==
    /\ mu = Idle
    /\ IF exists(pid)
       THEN mu' = Returning("RegisterPID", pid, 0, "AlreadyRegistered", << >>, {})
       ELSE IF ~readThreads(pid).ok
       THEN mu' = Returning("RegisterPID", pid, 0, "NotFound", << >>, {})
       ELSE /\ clock < MaxClock
            /\ mu' = [op |-> "RegisterPID", pid |-> pid, found |-> Found(pid),
                      tids |-> readThreads(pid).tids, i |-> 1, inserted |-> {}]
    /\ UNCHANGED <<task, tracked_pids, cfg, opts, fw, fs, fhist, codec, http, proc, queue, out, hist, timer, ring, lastWrite, trackedPids, clock, callers>>

\* One round of RegisterPID's insert loop: Update(tid).  On failure the
\* rollback loop runs (in the same step) and the call returns the error;
\* after the last round the entry is stored and the call returns len(tids).
\* inserted records the keys this call created.
RegisterPID_Update ==
    /\ mu.op = "RegisterPID"
    /\ LET tid == mu.tids[mu.i]
           r == MapUpdate(tracked_pids, tid)
           ins == IF r.ok /\ tid \notin tracked_pids
                  THEN mu.inserted \cup {tid} ELSE mu.inserted
       IN IF ~r.ok
          THEN /\ tracked_pids' = tracked_pids \ rollback_keys(mu.tids, mu.inserted)
               /\ mu' = Returning("RegisterPID", mu.pid, 0, "KernelMapError",
                                  mu.tids, ins)
               /\ UNCHANGED <<trackedPids, clock>>
          ELSE /\ tracked_pids' = r.m
               /\ IF mu.i < Len(mu.tids)
                  THEN /\ mu' = [mu EXCEPT !.i = mu.i + 1, !.inserted = ins]
                       /\ UNCHANGED <<trackedPids, clock>>
                  ELSE /\ trackedPids' = with_entry(trackedPids, mu.pid,
                                            new_entry(mu.pid, mu.tids, clock))
                       /\ clock' = clock + 1
                       /\ mu' = Returning("RegisterPID", mu.pid, Len(mu.tids), "",
                                          mu.tids, ins)
    /\ UNCHANGED <<task, cfg, opts, fw, fs, fhist, codec, http, proc, queue, out, hist, timer, ring, lastWrite, callers>>

\* One round of UnregisterPID's loop over pid's ThreadIDs, at index i:
\* Delete(tid), a failure is only logged; after the last round the entry is
\* removed and the call returns nil.  deleted are the tids whose Delete
\* succeeded so far.
UnregisterRound(pid, i, deleted) ==
    LET tids == trackedPids[pid].ThreadIDs
        r == MapDelete(tracked_pids, tids[i])
        del == IF r.ok THEN deleted \cup {tids[i]} ELSE deleted
    IN /\ tracked_pids' = r.m
       /\ IF i < Len(tids)
          THEN /\ mu' = [op |-> "UnregisterPID", pid |-> pid, found |-> Found(pid),
                         i |-> i + 1, deleted |-> del]
               /\ UNCHANGED trackedPids
          ELSE /\ trackedPids' = without(trackedPids, pid)
               /\ mu' = Returning("UnregisterPID", pid, 0, "", tids, del)

UnregisterPID_Begin_silent(pid) ==
    /\ mu = Idle
    /\ IF ~exists(pid)
       THEN /\ mu' = Returning("UnregisterPID", pid, 0, "", << >>, {})
            /\ UNCHANGED <<tracked_pids, trackedPids>>
       ELSE UnregisterRound(pid, 1, {})
    /\ UNCHANGED <<task, cfg, opts, fw, fs, fhist, codec, http, proc, queue, out, hist, timer, ring, lastWrite, clock, callers>>

\* UnregisterPID from the start: takes mu, looks the entry up and runs the
\* first round.
UnregisterPID_Begin(pid) ==
    /\ mu = Idle
    /\ IF ~exists(pid)
       THEN /\ mu' = Returning("UnregisterPID", pid, 0, "NotRegistered", << >>, {})
            /\ UNCHANGED <<tracked_pids, trackedPids>>
       ELSE UnregisterRound(pid, 1, {})
    /\ UNCHANGED <<task, cfg, opts, fw, fs, fhist, codec, http, proc, queue, out, hist, timer, ring, lastWrite, clock, callers>>

\* A later round of UnregisterPID's loop.
UnregisterPID_Delete ==
    /\ mu.op = "UnregisterPID"
    /\ UnregisterRound(mu.pid, mu.i, mu.deleted)
    /\ UNCHANGED <<task, cfg, opts, fw, fs, fhist, codec, http, proc, queue, out, hist, timer, ring, lastWrite, clock, callers>>

\* The parents a sweep evicts: those whose /proc/<pid> is gone.
Dead(reg) == {p \in DOMAIN reg : ~processExists(p)}

\* The body of checkLiveness: every dead parent's ThreadIDs are deleted from
\* the map (errors ignored) and its entry is removed.
sweep ==
    LET dead == Dead(trackedPids)
    IN /\ tracked_pids' = tracked_pids \
              UNION {Range(trackedPids[p].ThreadIDs) : p \in dead}
       /\ trackedPids' = [p \in DOMAIN trackedPids \ dead |-> trackedPids[p]]
       /\ mu' = Returning("checkLiveness", 0, Cardinality(dead), "", << >>, {})

\* checkLiveness: one sweep under mu, whenever it runs.
checkLiveness ==
    /\ mu = Idle
    /\ sweep
    /\ UNCHANGED <<task, cfg, opts, fw, fs, fhist, codec, http, proc, queue, out, hist, timer, ring, lastWrite, clock, callers>>

\* A second passes, unless the ticker of the liveness monitor is due.  The
\* time process 1 has been dead is counted while it is in the registry.
Tick ==
    /\ Running
    /\ timer.sweep < checkInterval
    /\ timer' = [sweep |-> timer.sweep + 1,
                 dead |-> IF exists(1) /\ ~processExists(1)
                          THEN timer.dead + 1 ELSE timer.dead]
    /\ UNCHANGED <<task, tracked_pids, cfg, opts, fw, fs, fhist, codec, http, proc, queue, out, hist, ring, lastWrite, trackedPids,
                   mu, clock, callers>>

\* StartLivenessMonitor: every checkInterval the ticker fires and the
\* goroutine runs checkLiveness.
StartLivenessMonitor ==
    /\ timer.sweep = checkInterval
    /\ mu = Idle
    /\ sweep
    /\ timer' = [timer EXCEPT !.sweep = 0]
    /\ UNCHANGED <<task, cfg, opts, fw, fs, fhist, codec, http, proc, queue, out, hist, ring, lastWrite, clock, callers>>

\* The first index >= i of tids that is not in existing: the next tid
\* RefreshThreads calls Update for (Len(tids) + 1 when there is none).
RECURSIVE NextNew(_, _, _)
NextNew(tids, existing, i) ==
    IF i > Len(tids) THEN i
    ELSE IF tids[i] \notin existing THEN i
    ELSE NextNew(tids, existing, i + 1)

\* RefreshThreads from index i of the snapshot on, with newCount so far:
\* either the loop stops at the next tid to insert, or it is over, ThreadIDs
\* becomes the snapshot and the call returns newCount.  inserted records
\* the tids whose Update succeeded.
RefreshFrom(pid, tids, i, newCount, inserted) ==
    LET j == NextNew(tids, Range(trackedPids[pid].ThreadIDs), i)
    IN IF j <= Len(tids)
       THEN /\ mu' = [op |-> "RefreshThreads", pid |-> pid, found |-> Found(pid),
                      tids |-> tids, i |-> j, newCount |-> newCount, inserted |-> inserted]
            /\ UNCHANGED trackedPids
       ELSE /\ trackedPids' = [trackedPids EXCEPT ![pid].ThreadIDs = tids]
            /\ mu' = Returning("RefreshThreads", pid, newCount, "", tids, inserted)

\* RefreshThreads up to the snapshot: takes mu, looks the entry up, reads
\* /proc/<pid>/task.
RefreshThreads_Begin(pid) ==
    /\ mu = Idle
    /\ IF ~exists(pid)
       THEN /\ mu' = Returning("RefreshThreads", pid, 0, "NotRegistered", << >>, {})
            /\ UNCHANGED trackedPids
       ELSE IF ~readThreads(pid).ok
       THEN /\ mu' = Returning("RefreshThreads", pid, 0, "NotFound", << >>, {})
            /\ UNCHANGED trackedPids
       ELSE RefreshFrom(pid, readThreads(pid).tids, 1, 0, {})
    /\ UNCHANGED <<task, tracked_pids, cfg, opts, fw, fs, fhist, codec, http, proc, queue, out, hist, timer, ring, lastWrite, clock, callers>>

\* One Update of RefreshThreads' loop, for a tid that is not in ThreadIDs:
\* a failed insert is logged and skipped.
RefreshThreads_Update ==
    /\ mu.op = "RefreshThreads"
    /\ LET tid == mu.tids[mu.i]
           r == MapUpdate(tracked_pids, tid)
       IN /\ tracked_pids' = r.m
          /\ RefreshFrom(mu.pid, mu.tids, mu.i + 1,
                         IF r.ok THEN mu.newCount + 1 ELSE mu.newCount,
                         IF r.ok THEN mu.inserted \cup {tid} ELSE mu.inserted)
    /\ UNCHANGED <<task, cfg, opts, fw, fs, fhist, codec, http, proc, queue, out, hist, timer, ring, lastWrite, clock, callers>>

\* The caller takes the result; mu is free again.
Return ==
    /\ mu.op = "done"
    /\ mu' = Idle
    /\ UNCHANGED <<task, tracked_pids, cfg, opts, fw, fs, fhist, codec, http, proc, queue, out, hist, timer, ring, lastWrite, trackedPids, clock, callers>>

\* -------------------------------------------------------------- control API
NoInfo == [PID |-> 0, ThreadCount |-> 0, RegisteredAt |-> 0]

\* No request is being served.  A request keeps its method, whether its
\* body or path could be parsed (ok) and its pid; a response its status,
\* error message, thread count and ProcessInfo; res is what the registry
\* call returned, and reg and map are the registry and the kernel map as
\* the handler found them (after a registry call: as the last step of the
\* call found them).
NoRequest ==
    [st |-> "idle", method |-> "", ok |-> TRUE, pid |-> 0, status |-> 0,
     error |-> "", threads |-> 0, info |-> NoInfo, res |-> Idle,
     reg |-> << >>, map |-> {}]

\* Bodies of POST /pids: one that is not JSON, and {"pid": p}; a body
\* without pid decodes to pid 0.
Bodies == {[json |-> FALSE, pid |-> 0]} \cup {[json |-> TRUE, pid |-> p] : p \in PidArgs}

\* Paths behind /pids/: empty or not a number, and the decimal pids.
Paths == {[ok |-> FALSE, pid |-> 0]} \cup {[ok |-> TRUE, pid |-> p] : p \in PidArgs}

\* writeError: the response with a status and an {"error": ...} body.
writeError(method, ok, pid, status, message) ==
    [NoRequest EXCEPT !.st = "answered", !.method = method, !.ok = ok,
                      !.pid = pid, !.status = status, !.error = message,
                      !.reg = trackedPids, !.map = tracked_pids]

\* The handler is in its call of the registry.
Calling(method, pid) ==
    [NoRequest EXCEPT !.st = "calling", !.method = method, !.pid = pid]

\* registerPid up to its call of the registry: the body is decoded and a
\* pid of zero is refused.
registerPid(body) ==
    /\ Running
    /\ http.st = "idle"
    /\ http' = IF ~body.json
               THEN writeError("POST", FALSE, 0, 400, "Invalid JSON payload")
               ELSE IF body.pid = 0
               THEN writeError("POST", TRUE, 0, 400,
                               "PID is required and must be non-zero")
               ELSE Calling("POST", body.pid)
    /\ UNCHANGED <<task, tracked_pids, cfg, opts, timer, ring, lastWrite,
                   trackedPids, mu, clock, queue, out, hist, fw, fs, fhist,
                   codec, proc, callers>>

\* s.registry.RegisterPID(req.PID).
registerPid_call ==
    /\ http.st = "calling"
    /\ http.method = "POST"
    /\ RegisterPID_Begin(http.pid)

registerPid_created(res) == 201

\* The status registerPid answers with when RegisterPID has returned.
registerPid_status(res) == IF res.err # "" THEN 400 ELSE 201

\* The status unregisterPid answers with when UnregisterPID has returned.
unregisterPid_status(res) == IF res.err # "" THEN 404 ELSE 200

getPid_any(reg, pid) ==
    IF DOMAIN reg # {}
    THEN LET p == CHOOSE q \in DOMAIN reg : TRUE
         IN [NoRequest EXCEPT
               !.st = "answered", !.method = "GET", !.pid = pid, !.status = 200,
               !.info = [PID |-> reg[p].ParentPID,
                         ThreadCount |-> Len(reg[p].ThreadIDs),
                         RegisteredAt |-> reg[p].RegisteredAt],
               !.reg = trackedPids, !.map = tracked_pids]
    ELSE writeError("GET", TRUE, pid, 404, "NotRegistered")

\* getPid over the processes List() returned: 200 with the ProcessInfo of
\* the entry whose ParentPID is pid, 404 when there is none.
getPid(reg, pid) ==
    IF pid \in DOMAIN reg
    THEN [NoRequest EXCEPT
            !.st = "answered", !.method = "GET", !.pid = pid, !.status = 200,
            !.info = [PID |-> reg[pid].ParentPID,
                      ThreadCount |-> Len(reg[pid].ThreadIDs),
                      RegisteredAt |-> reg[pid].RegisteredAt],
            !.reg = trackedPids, !.map = tracked_pids]
    ELSE writeError("GET", TRUE, pid, 404, "NotRegistered")

\* handlePidByID up to its call of the registry: the path is parsed; GET is
\* served by getPid, which reads the registry through List() under the
\* read lock and looks for the entry of pid.
handlePidByID(method, path) ==
    /\ Running
    /\ http.st = "idle"
    /\ IF ~path.ok
       THEN http' = writeError(method, FALSE, 0, 400, "Invalid PID format")
       ELSE IF method = "DELETE"
       THEN http' = Calling("DELETE", path.pid)
       ELSE /\ mu = Idle
            /\ http' = getPid(trackedPids, path.pid)
    /\ UNCHANGED <<task, tracked_pids, cfg, opts, timer, ring, lastWrite,
                   trackedPids, mu, clock, queue, out, hist, fw, fs, fhist,
                   codec, proc, callers>>

\* s.registry.UnregisterPID(pid).
unregisterPid_call ==
    /\ http.st = "calling"
    /\ http.method = "DELETE"
    /\ UnregisterPID_Begin(http.pid)

\* The registry call has returned: registerPid answers 201 with the thread
\* count or 400 with the error, unregisterPid 200 or 404 with the error.
writeJSON ==
    /\ mu.op = "done"
    /\ http.st = "calling"
    /\ mu' = Idle
    /\ http' = [http EXCEPT
                  !.st = "answered",
                  !.status = IF http.method = "POST" THEN registerPid_status(mu)
                             ELSE unregisterPid_status(mu),
                  !.error = mu.err,
                  !.threads = IF http.method = "POST" /\ mu.err = ""
                              THEN mu.n ELSE 0,
                  !.res = mu,
                  !.reg = mu.reg,
                  !.map = mu.map]
    /\ UNCHANGED <<task, tracked_pids, cfg, opts, timer, ring, lastWrite,
                   trackedPids, clock, queue, out, hist, fw, fs, fhist, codec, proc, callers>>

\* The response has been sent.
Served ==
    /\ http.st = "answered"
    /\ http' = NoRequest
    /\ UNCHANGED <<task, tracked_pids, cfg, opts, timer, ring, lastWrite,
                   trackedPids, mu, clock, queue, out, hist, fw, fs, fhist,
                   codec, proc, callers>>

\* ------------------------------------------------------ concurrent callers
\* The goroutines of the HTTP server (one per request) and the liveness
\* monitor call the registry concurrently; each call takes r.mu first.
Callers == 1..MaxCallers

\* The pids the concurrent callers pass.
CallPids == {1}

\* A goroutine that has made no call.  A caller keeps its call and pid,
\* whether pid was in the registry when the call was made (was), whether
\* /proc/<pid> was there when the body of the call began (found), what the
\* call returned (n, err; List: res, the copies in the order List appended
\* them), for List the registry as it was when the read lock was taken
\* (at), and for GET /pids the response listPids builds (resp).
NoCall ==
    [st |-> "idle", call |-> "", pid |-> 0, was |-> FALSE, found |-> FALSE,
     n |-> 0, err |-> "",
     res |-> << >>, at |-> << >>, resp |-> [processes |-> << >>, total |-> 0]]

NoCallers == [c \in Callers |-> NoCall]

\* Who holds r.mu: the callers past Lock or RLock that have not returned.
Holders(cs) == {d \in DOMAIN cs : cs[d].st = "in"}

Lock_free(cs) == TRUE

\* r.mu.Lock() returns: nobody holds the lock.
Lock(cs) == Holders(cs) = {}

RLock_free(cs) == TRUE

\* r.mu.RLock() returns: nobody holds the write lock.
RLock(cs) == \A d \in Holders(cs) : cs[d].call = "List"

\* A goroutine calls the registry and blocks at the lock; checkLiveness
\* and List take no pid.
Call(c, call, pid) ==
    /\ Running
    /\ callers[c].st = "idle"
    /\ call \in {"checkLiveness", "List"} => pid = 0
    /\ callers' = [callers EXCEPT ![c] =
                     [NoCall EXCEPT !.st = "blocked", !.call = call, !.pid = pid,
                                    !.was = exists(pid)]]
    /\ UNCHANGED <<task, tracked_pids, cfg, opts, timer, ring, lastWrite,
                   trackedPids, mu, clock, queue, out, hist, fw, fs, fhist,
                   codec, http, proc>>

\* The caller's Lock or RLock returns.
Acquire(c) ==
    /\ callers[c].st = "blocked"
    /\ IF callers[c].call = "List" THEN RLock(callers) ELSE Lock(callers)
    /\ callers' = [callers EXCEPT ![c].st = "in", ![c].at = trackedPids]
    /\ UNCHANGED <<task, tracked_pids, cfg, opts, timer, ring, lastWrite,
                   trackedPids, mu, clock, queue, out, hist, fw, fs, fhist,
                   codec, http, proc>>

\* The holder of the write lock starts the body of its call.
Enter(c) ==
    /\ callers[c].st = "in"
    /\ IF callers[c].call = "RegisterPID" THEN RegisterPID_Begin(callers[c].pid)
       ELSE IF callers[c].call = "UnregisterPID"
       THEN UnregisterPID_Begin(callers[c].pid)
       ELSE IF callers[c].call = "RefreshThreads"
       THEN RefreshThreads_Begin(callers[c].pid)
       ELSE callers[c].call = "checkLiveness" /\ checkLiveness

\* The deferred r.mu.Unlock(): the call returns to its caller.
Unlock(c) ==
    /\ callers[c].st = "in"
    /\ callers[c].call # "List"
    /\ mu.op = "done"
    /\ mu' = Idle
    /\ callers' = [callers EXCEPT ![c].st = "returned", ![c].n = mu.n,
                                  ![c].err = mu.err, ![c].found = mu.found]
    /\ UNCHANGED <<task, tracked_pids, cfg, opts, timer, ring, lastWrite,
                   trackedPids, clock, queue, out, hist, fw, fs, fhist,
                   codec, http, proc>>

\* The pids of the entries List has copied.
Copied(res) == {res[i].ParentPID : i \in 1..Len(res)}

\* One round of List's loop over the map: result = append(result, *proc),
\* in the order the iteration of the map yields the entries.
List_append(c) ==
    /\ callers[c].st = "in"
    /\ callers[c].call = "List"
    /\ \E p \in DOMAIN trackedPids \ Copied(callers[c].res) :
         callers' = [callers EXCEPT ![c].res = Append(@, trackedPids[p])]
    /\ UNCHANGED <<task, tracked_pids, cfg, opts, timer, ring, lastWrite,
                   trackedPids, mu, clock, queue, out, hist, fw, fs, fhist,
                   codec, http, proc>>

\* listPids: the body of GET /pids made of what List returned.
listPids(procs) ==
    [processes |-> [i \in 1..Len(procs) |->
                      [PID |-> procs[i].ParentPID,
                       ThreadCount |-> Len(procs[i].ThreadIDs),
                       RegisteredAt |-> procs[i].RegisteredAt]],
     total |-> Len(procs)]

\* The loop is over: List returns (the deferred RUnlock runs) and listPids
\* builds its response.
List_return(c) ==
    /\ callers[c].st = "in"
    /\ callers[c].call = "List"
    /\ DOMAIN trackedPids \subseteq Copied(callers[c].res)
    /\ callers' = [callers EXCEPT ![c].st = "returned",
                                  ![c].n = Len(callers[c].res),
                                  ![c].resp = listPids(callers[c].res)]
    /\ UNCHANGED <<task, tracked_pids, cfg, opts, timer, ring, lastWrite,
                   trackedPids, mu, clock, queue, out, hist, fw, fs, fhist,
                   codec, http, proc>>

\* -------------------------------------------------------------- the system
\* Parse: the FDs of the list fill target_fds from slot 0, the other slots
\* stay 0.
Config(targetPID, fds) ==
    [target_pid |-> targetPID,
     num_fds |-> Len(fds),
     target_fds |-> [i \in 0..(MAX_FDS - 1) |->
                       IF i < Len(fds) THEN fds[i + 1] ELSE 0]]

\* After Load and pidmgr.New: process 1 runs with one thread; with --pid 1
\* the loader has put the threads of /proc/1/task into the map; the registry
\* is empty.  With registered, main's RegisterPID(cfg.TargetPID) has run too.
\* Parse: the options besides --pid and --file-descriptors.  A tracking
\* interval of 0 becomes the default.
Options(trackingInterval, silenceStdout, lokiEndpoint, fileOutput) ==
    [TrackingInterval |-> IF trackingInterval = 0 THEN DefaultTrackingInterval
                          ELSE trackingInterval,
     SilenceStdout |-> silenceStdout,
     LokiEndpoint |-> lokiEndpoint,
     FileOutput |-> fileOutput]

\* The tracer started with none of these options.
NoOptions == Options(0, FALSE, "", "")

\* ------------------------------------------------------ start and shutdown
\* main before Load: nothing is loaded or attached.
NotLoaded ==
    [Started EXCEPT !.step = "memlock", !.links = << >>, !.coll = "none",
                    !.defers = << >>]

\* Load has returned an error; closed are the links it closed, in order,
\* and the collection is closed when there was one.
Failed(closed) ==
    [proc EXCEPT !.step = "failed", !.err = TRUE, !.closes = closed,
                 !.coll = IF proc.coll = "open" THEN "closed" ELSE @]

\* Load up to attachTracepoints with --pid targetPID, one call per step: RemoveMemlock, loadBpf,
\* NewCollection, the update of config_map and InitTrackedPids; ok is
\* whether the call succeeds.  After a failure of the last two the
\* collection is closed.
Load(targetPID, ok) ==
    /\ proc.step \in {"memlock", "spec", "collection", "config", "seed"}
    /\ proc' = IF ~ok THEN Failed(<< >>)
               ELSE IF proc.step = "memlock" THEN [proc EXCEPT !.step = "spec"]
               ELSE IF proc.step = "spec" THEN [proc EXCEPT !.step = "collection"]
               ELSE IF proc.step = "collection"
               THEN [proc EXCEPT !.step = "config", !.coll = "open"]
               ELSE IF proc.step = "config" THEN [proc EXCEPT !.step = "seed"]
               ELSE [proc EXCEPT !.step = "attach_write"]
    /\ cfg' = IF ok /\ proc.step = "config" THEN Config(targetPID, << >>)
              ELSE cfg
    /\ tracked_pids' = IF ok /\ proc.step = "seed" /\ targetPID # 0
                       THEN Group(targetPID) ELSE tracked_pids
    /\ UNCHANGED <<task, opts, timer, ring, lastWrite, trackedPids, mu, clock,
                   queue, out, hist, fw, fs, fhist, codec, http, callers>>

\* The links attachTracepoints closes, in order, when the next attach
\* fails: lWrite, then lFork.
attach_closes(links) == links

\* attachTracepoints, one attach per step: write, fork, exit; when an attach
\* fails the links attached so far are closed and Load closes the
\* collection.
attachTracepoints(ok) ==
    /\ proc.step \in {"attach_write", "attach_fork", "attach_exit"}
    /\ proc' = IF ~ok THEN Failed(attach_closes(proc.links))
               ELSE IF proc.step = "attach_write"
               THEN [proc EXCEPT !.step = "attach_fork", !.links = <<"write">>]
               ELSE IF proc.step = "attach_fork"
               THEN [proc EXCEPT !.step = "attach_exit",
                                 !.links = <<"write", "fork">>]
               ELSE [proc EXCEPT !.step = "loaded",
                                 !.links = <<"write", "fork", "exit">>]
    /\ UNCHANGED <<task, tracked_pids, cfg, opts, timer, ring, lastWrite,
                   trackedPids, mu, clock, queue, out, hist, fw, fs, fhist,
                   codec, http, callers>>

\* main after Load: on an error os.Exit(1); else coll.Close, the Close of
\* each link and cancel are deferred (they run last in, first out) and the
\* goroutines are started.
main ==
    /\ proc.step \in {"failed", "loaded"}
    /\ proc' = IF proc.step = "failed" THEN [proc EXCEPT !.step = "exited"]
               ELSE [proc EXCEPT !.step = "run",
                                 !.defers = <<"cancel", "exit", "fork", "write",
                                              "coll">>]
    /\ UNCHANGED <<task, tracked_pids, cfg, opts, timer, ring, lastWrite,
                   trackedPids, mu, clock, queue, out, hist, fw, fs, fhist,
                   codec, http, callers>>

\* SIGINT or SIGTERM: the signal goroutine calls cancel.  due counts the
\* events the dispatcher had received and those in the queue.
Signal ==
    /\ proc.step = "run"
    /\ ~proc.cancelled
    /\ lastWrite.path = "none"
    /\ proc' = [proc EXCEPT !.cancelled = TRUE,
                            !.due = Len(hist.taken) + Len(queue)]
    /\ UNCHANGED <<task, tracked_pids, cfg, opts, timer, ring, lastWrite,
                   trackedPids, mu, clock, queue, out, hist, fw, fs, fhist,
                   codec, http, callers>>

\* main returns from <-ctx.Done() and runs its deferred calls, one per
\* step; after the last the process exits.
main_return ==
    /\ proc.cancelled
    /\ proc.step \in {"run", "shutdown"}
    /\ lastWrite.path = "none"
    /\ proc' =
         IF proc.step = "run" THEN [proc EXCEPT !.step = "shutdown"]
         ELSE IF proc.defers = << >> THEN [proc EXCEPT !.step = "exited"]
         ELSE LET d == Head(proc.defers)
              IN [proc EXCEPT
                    !.defers = Tail(@),
                    !.closes = IF d \in {"exit", "fork", "write"}
                               THEN Append(@, d) ELSE @,
                    !.coll = IF d = "coll" THEN "closed" ELSE @]
    /\ UNCHANGED <<task, tracked_pids, cfg, opts, timer, ring, lastWrite,
                   trackedPids, mu, clock, queue, out, hist, fw, fs, fhist,
                   codec, http, callers>>

rd_left_open(closed) == closed

\* The deferred rd.Close of processEvents: the ring reader is closed.
rd_Close(closed) == TRUE

\* The dispatcher's select takes the ctx.Done case, which it can as soon as
\* the context is cancelled, whatever the queue holds: processEvents
\* returns and its deferred fw.Close and rd.Close run.
processEvents_Done ==
    /\ Running
    /\ proc.cancelled
    /\ proc.dispatcher = "running"
    /\ proc' = [proc EXCEPT !.dispatcher = "stopped", !.fwClosed = TRUE,
                            !.rdClosed = rd_Close(@)]
    /\ UNCHANGED <<task, tracked_pids, cfg, opts, timer, ring, lastWrite,
                   trackedPids, mu, clock, queue, out, hist, fw, fs, fhist,
                   codec, http, callers>>

\* rd.Read returns ringbuf.ErrClosed once the reader is closed:
\* readRingBuffer returns.
readRingBuffer_Closed ==
    /\ Running
    /\ proc.rdClosed
    /\ proc.reader = "running"
    /\ proc' = [proc EXCEPT !.reader = "stopped"]
    /\ UNCHANGED <<task, tracked_pids, cfg, opts, timer, ring, lastWrite,
                   trackedPids, mu, clock, queue, out, hist, fw, fs, fhist,
                   codec, http, callers>>

\* readRingBuffer has read and decoded a record and its select takes the
\* ctx.Done case: it returns and the event is not sent.
readRingBuffer_Done ==
    /\ Running
    /\ proc.cancelled
    /\ proc.reader = "running"
    /\ ~proc.rdClosed
    /\ ring # << >>
    /\ Len(hist.raw) < MaxEvents
    /\ ~binary_Read(Head(ring)).err
    /\ ring' = Tail(ring)
    /\ hist' = [hist EXCEPT !.raw = Append(@, Head(ring)),
                            !.read = Append(@, binary_Read(Head(ring)).ev)]
    /\ proc' = [proc EXCEPT !.reader = "stopped"]
    /\ UNCHANGED <<task, tracked_pids, cfg, opts, timer, lastWrite,
                   trackedPids, mu, clock, queue, out, fw, fs, fhist,
                   codec, http, callers>>

\* The select of the liveness goroutine takes the ticker case and runs
\* checkLiveness.
StartLivenessMonitor_tick ==
    /\ Running
    /\ proc.sweeper = "running"
    /\ checkLiveness

\* The select of the liveness goroutine takes the ctx.Done case: the
\* goroutine returns.
StartLivenessMonitor_Done ==
    /\ Running
    /\ proc.cancelled
    /\ proc.sweeper = "running"
    /\ proc' = [proc EXCEPT !.sweeper = "stopped"]
    /\ UNCHANGED <<task, tracked_pids, cfg, opts, timer, ring, lastWrite,
                   trackedPids, mu, clock, queue, out, hist, fw, fs, fhist,
                   codec, http, callers>>

\* The select of countTrackedPids takes the ticker case: the keys of the
\* map are counted and the count is published.
countTrackedPids_tick ==
    /\ Running
    /\ proc.counter = "running"
    /\ out' = [out EXCEPT !.tracked = Cardinality(tracked_pids)]
    /\ UNCHANGED <<task, tracked_pids, cfg, opts, timer, ring, lastWrite,
                   trackedPids, mu, clock, queue, hist, fw, fs, fhist,
                   codec, http, proc, callers>>

\* The select of countTrackedPids takes the ctx.Done case: it returns.
countTrackedPids_Done ==
    /\ Running
    /\ proc.cancelled
    /\ proc.counter = "running"
    /\ proc' = [proc EXCEPT !.counter = "stopped"]
    /\ UNCHANGED <<task, tracked_pids, cfg, opts, timer, ring, lastWrite,
                   trackedPids, mu, clock, queue, out, hist, fw, fs, fhist,
                   codec, http, callers>>

InitSys(targetPID, fds, registered, o) ==
    /\ task = [t \in Tids |->
                 IF t = 1
                 THEN [st |-> "alive", tgid |-> 1, forker |-> 0, lin |-> FALSE]
                 ELSE [st |-> "unborn", tgid |-> 0, forker |-> 0, lin |-> FALSE]]
    /\ cfg = Config(targetPID, fds)
    /\ tracked_pids = IF targetPID # 0 THEN {1} ELSE {}
    /\ ring = << >>
    /\ lastWrite = NoWrite
    /\ trackedPids = IF targetPID # 0 /\ registered
                     THEN with_entry(<< >>, targetPID,
                                     new_entry(targetPID, <<targetPID>>, 0))
                     ELSE << >>
    /\ mu = Idle
    /\ clock = IF targetPID # 0 /\ registered THEN 1 ELSE 0
    /\ opts = o
    /\ timer = [sweep |-> 0, dead |-> 0]
    /\ queue = << >>
    /\ out = [stdout |-> << >>, file |-> << >>, pushes |-> {}, posts |-> 0,
              loki |-> << >>,
              writeCalls |-> 0, dropped |-> 0, fileErrs |-> 0,
              tracked |-> 0]
    /\ hist = [raw |-> << >>, parseErrs |-> {}, read |-> << >>,
               taken |-> << >>, dropLen |-> {}]
    /\ http = NoRequest
    /\ callers = NoCallers

\* processEvents constructs the writer from the file path and the record
\* limit; no file is touched before the first Write.
InitWith(targetPID, fds, registered, o) ==
    /\ InitSys(targetPID, fds, registered, o)
    /\ codec = NoCodec
    /\ proc = Started
    /\ InitSink(NewFileWriter("two_file", DefaultMaxRecords, 0), NoFiles)

\* The registry and the lineage hooks, started with or without --pid and
\* with no FD filter.
Init == \E targetPID \in {0, 1} : InitWith(targetPID, << >>, FALSE, NoOptions)

Next ==
    \/ \E p \in Tids, asThread \in BOOLEAN : trace_sched_process_fork(p, asThread)
    \/ \E t \in Tids : trace_sched_process_exit(t)
    \/ \E pid \in PidArgs : RegisterPID_Begin(pid)
    \/ RegisterPID_Update
    \/ \E pid \in PidArgs : UnregisterPID_Begin(pid)
    \/ UnregisterPID_Delete
    \/ checkLiveness
    \/ \E pid \in PidArgs : RefreshThreads_Begin(pid)
    \/ RefreshThreads_Update
    \/ Return

Spec == Init /\ [][Next]_vars

\* The write probe under every FD filter, after main's start-up, with the
\* lineage hooks and the ring's reader going on.
InitProbe ==
    \E targetPID \in {0, 1}, fds \in FdLists :
        InitWith(targetPID, fds, TRUE, NoOptions)

NextProbe ==
    \/ \E t \in Tids, fd \in FdArgs : trace_write_enter(t, fd)
    \/ write_return
    \/ RingRead
    \/ \E p \in Tids, asThread \in BOOLEAN : trace_sched_process_fork(p, asThread)
    \/ \E t \in Tids : trace_sched_process_exit(t)

SpecProbe == InitProbe /\ [][NextProbe]_vars

\* Register(p); Unregister(p); Register(p) for process 1, the calls a client
\* makes one after the other while process 1 and the hooks run.
NextIdem ==
    \/ RegisterPID_Begin(1)
    \/ RegisterPID_Update
    \/ UnregisterPID_Begin(1)
    \/ UnregisterPID_Delete
    \/ Return
    \/ \E p \in Tids, asThread \in BOOLEAN : trace_sched_process_fork(p, asThread)
    \/ \E t \in Tids : trace_sched_process_exit(t)

SpecIdem == Init /\ [][NextIdem]_vars

\* --tracking-interval values the tracer is started with.
TrackingIntervals == {0, 1, 5}

\* The liveness monitor in time: the tracer was started with --pid 1 and a
\* tracking interval, process 1 runs, forks and exits, seconds pass and the
\* ticker fires.
InitSweep == \E i \in TrackingIntervals : InitWith(1, << >>, TRUE, Options(i, FALSE, "", ""))

NextSweep ==
    \/ Tick
    \/ StartLivenessMonitor
    \/ Return
    \/ \E p \in Tids, asThread \in BOOLEAN : trace_sched_process_fork(p, asThread)
    \/ \E t \in Tids : trace_sched_process_exit(t)

SpecSweep == InitSweep /\ [][NextSweep]_vars

\* The pipeline from the ring to the sinks: the tracked process 1 writes,
\* the ring reader, the dispatcher and the push goroutines run, under every
\* choice of --no-stdout, --loki-endpoint and --file-output.
InitPipe ==
    \E silenceStdout \in BOOLEAN, lokiEndpoint \in {"", "http://loki"},
       fileOutput \in {"", "trace.log"} :
        InitWith(1, << >>, TRUE, Options(0, silenceStdout, lokiEndpoint, fileOutput))

NextPipe ==
    \/ \E fd \in {U64(0, 1), U64(0, 2)} : trace_write_enter(1, fd)
    \/ write_return
    \/ readRingBuffer
    \/ processEvents
    \/ Push

SpecPipe == InitPipe /\ [][NextPipe]_vars

\* String over the events of WriteEvents, in either version of the event
\* package, and a parser over its lines.
InitCodec ==
    /\ InitSys(1, << >>, TRUE, NoOptions)
    /\ InitSink(NewFileWriter("two_file", DefaultMaxRecords, 0), NoFiles)
    /\ \E e \in WriteEvents, version \in {"capped", "uncapped"} :
         codec = [NoCodec EXCEPT !.step = "new", !.version = version, !.e = e]
    /\ proc = Started

NextCodec ==
    \/ Format
    \/ Parse

SpecCodec == InitCodec /\ [][NextCodec]_vars

\* The control API over the registry: requests are served one after the
\* other while processes fork and exit.
InitApi == \E registered \in BOOLEAN : InitWith(1, << >>, registered, NoOptions)

NextApi ==
    \/ \E body \in Bodies : registerPid(body)
    \/ registerPid_call
    \/ RegisterPID_Update
    \/ \E method \in {"DELETE", "GET"}, path \in Paths : handlePidByID(method, path)
    \/ unregisterPid_call
    \/ UnregisterPID_Delete
    \/ writeJSON
    \/ Served
    \/ \E p \in Tids, asThread \in BOOLEAN : trace_sched_process_fork(p, asThread)
    \/ \E t \in Tids : trace_sched_process_exit(t)

SpecApi == InitApi /\ [][NextApi]_vars

\* The life of the tracer started with --pid 1 and --file-output: Load and
\* its failures, the pipeline at work, the signal and the shutdown.
InitLife ==
    /\ InitSys(0, << >>, FALSE, Options(0, FALSE, "", "trace.log"))
    /\ InitSink(NewFileWriter("two_file", DefaultMaxRecords, 0), NoFiles)
    /\ codec = NoCodec
    /\ proc = NotLoaded

NextLife ==
    \/ \E ok \in BOOLEAN : Load(1, ok)
    \/ \E ok \in BOOLEAN : attachTracepoints(ok)
    \/ main
    \/ \E fd \in {U64(0, 1), U64(0, 2)} : trace_write_enter(1, fd)
    \/ write_return
    \/ readRingBuffer
    \/ processEvents
    \/ Signal
    \/ main_return
    \/ processEvents_Done

SpecLife == InitLife /\ [][NextLife]_vars

\* The ring reader and the dispatcher over samples of every length in
\* RecordLens.
InitDecode == InitWith(1, << >>, TRUE, NoOptions)

NextDecode ==
    \/ \E n \in RecordLens : RawSample(n, U64(0, 1))
    \/ readRingBuffer
    \/ processEvents

SpecDecode == InitDecode /\ [][NextDecode]_vars

\* Concurrent calls of the registry: each goroutine makes one call, for
\* process 1 where the call takes a pid; process 1 may start a second
\* thread or exit meanwhile.
CallNames == {"RegisterPID", "UnregisterPID", "RefreshThreads", "checkLiveness", "List"}

InitConc == \E registered \in BOOLEAN : InitWith(1, << >>, registered, NoOptions)

\* Thread 1 starts the second thread of process 1.
clone_thread ==
    /\ task[2].st = "unborn"
    /\ trace_sched_process_fork(1, TRUE)

NextConc ==
    \/ \E c \in Callers, call \in CallNames, pid \in CallPids \cup {0} :
         Call(c, call, pid)
    \/ \E c \in Callers : Acquire(c)
    \/ \E c \in Callers : Enter(c)
    \/ RegisterPID_Update
    \/ UnregisterPID_Delete
    \/ RefreshThreads_Update
    \/ \E c \in Callers : Unlock(c)
    \/ \E c \in Callers : List_append(c)
    \/ \E c \in Callers : List_return(c)
    \/ clone_thread
    \/ trace_sched_process_exit(1)

SpecConc == InitConc /\ [][NextConc]_vars

\* The goroutines and cancellation: the tracer runs with process 1
\* registered; the process writes and may exit, the ring reader, the
\* dispatcher, the liveness sweeper and the counting ticker work until each
\* sees the cancellation; main may stay in its deferred calls for any time.
InitStop == InitWith(1, << >>, TRUE, Options(0, FALSE, "", "trace.log"))

\* Process 1 writes to fd 1, StopEvents times at most.
write_fd1 ==
    /\ Len(hist.raw) + Len(ring) < StopEvents
    /\ trace_write_enter(1, U64(0, 1))

NextStop ==
    \/ write_fd1
    \/ write_return
    \/ trace_sched_process_exit(1)
    \/ readRingBuffer
    \/ processEvents
    \/ StartLivenessMonitor_tick
    \/ Return
    \/ countTrackedPids_tick
    \/ Signal
    \/ main_return
    \/ processEvents_Done
    \/ readRingBuffer_Closed
    \/ readRingBuffer_Done
    \/ StartLivenessMonitor_Done
    \/ countTrackedPids_Done

\* A goroutine that can run does run (write_return, Return), and a select
\* with the ctx.Done case ready infinitely often takes it (the runtime
\* picks among the ready cases at random).
FairStop ==
    /\ WF_vars(write_return)
    /\ WF_vars(Return)
    /\ SF_vars(processEvents_Done)
    /\ SF_vars(readRingBuffer_Closed)
    /\ SF_vars(StartLivenessMonitor_Done)
    /\ SF_vars(countTrackedPids_Done)

SpecStop == InitStop /\ [][NextStop]_vars /\ FairStop

\* The file sink alone: either writer, with a rotation threshold and a
\* backup limit, started with or without a file at <path>; the dispatcher
\* hands it one line after the other.
Writers ==
    {NewFileWriter("two_file", m, 0) : m \in 1..MaxRecords}
    \cup {NewFileWriter("backups", m, b) : m \in 1..MaxRecords,
                                          b \in 0..MaxBackups}

InitFile ==
    /\ InitSys(1, << >>, TRUE, Options(0, FALSE, "", "trace.log"))
    /\ \E w \in Writers, f \in {NoFiles, OldFile} : InitSink(w, f)
    /\ codec = NoCodec
    /\ proc = Started

NextFile ==
    \/ Write

SpecFile == InitFile /\ [][NextFile]_vars

\* The file sink on a file system that fails: os.OpenFile or fmt.Fprintln
\* return an error up to MaxFaults times in the run.
InitFault ==
    /\ InitSys(1, << >>, TRUE, Options(0, FALSE, "", "trace.log"))
    /\ \E w \in Writers, f \in {NoFiles, OldFile} :
         fw = w /\ fs = f /\ fhist = NoWrites(f, MaxFaults)
    /\ codec = NoCodec
    /\ proc = Started

SpecFault == InitFault /\ [][NextFile]_vars

\* ------------------------------------------------------------------ claims
\* The event the write probe has just put on the ring, if any.
Emitted == ring # lastWrite.ring

\* C1: TID coverage.  Whenever the write probe submits an event carrying
\* thread id t, t is a key of tracked_pids at the lookup, and the event is
\* the writer's; a write by a thread whose tid is not a key leaves the ring
\* as it was, also when its tgid is in the registry.
C1_TidCoverage ==
    lastWrite.path # "none" =>
        /\ Emitted =>
             /\ lastWrite.tid \in tracked_pids
             /\ Len(ring) = Len(lastWrite.ring) + 1
             /\ ring[Len(ring)].tid = lastWrite.tid
        /\ lastWrite.tid \notin tracked_pids => ring = lastWrite.ring

\* A thread of the registered process 1 whose tid is not in the map has
\* written, with an event of a tracked thread on the ring.
C1_Witness ==
    /\ lastWrite.path = "untracked"
    /\ task[lastWrite.tid].tgid \in DOMAIN trackedPids
    /\ lastWrite.ring # << >>

\* The fds of the first num_fds slots of target_fds.
ConfiguredFds(c) == {c.target_fds[i] : i \in 0..(c.num_fds - 1)}

\* C2: FD filter.  With num_fds > 0 every event on the ring has an fd of
\* target_fds[0..num_fds), so a slot at index >= num_fds lets nothing
\* through; with num_fds = 0 no write is rejected for its fd.
C2_FdFilter ==
    /\ cfg.num_fds > 0 =>
         \A i \in 1..Len(ring) : ring[i].fd \in ConfiguredFds(cfg)
    /\ cfg.num_fds = 0 => lastWrite.path # "fd_filtered"

\* With a filter set, a write to the fd held by the slot at index num_fds
\* has been rejected while an event that passed the filter is on the ring.
C2_Witness ==
    /\ cfg.num_fds > 0
    /\ lastWrite.path = "fd_filtered"
    /\ Lo32(lastWrite.fd) = cfg.target_fds[cfg.num_fds]
    /\ ring # << >>

\* C3: Lineage.  A child that was forked in a registered process and
\* enrolled by the fork hook stays in tracked_pids until it exits.
C3_Lineage ==
    \A c \in Tids : Alive(c) /\ task[c].lin => c \in tracked_pids

\* C4: Registry/kernel-map invariant.  While no registry call is in
\* progress, every tid of a live thread recorded in some entry's ThreadIDs
\* is a key of tracked_pids.
C4_RegistryInMap ==
    mu = Idle =>
        \A pid \in DOMAIN trackedPids :
            \A tid \in Range(trackedPids[pid].ThreadIDs) :
                tid \in Tids /\ Alive(tid) => tid \in tracked_pids

\* C5: no tid is in the ThreadIDs of two registry entries.
C5_DisjointThreadIDs ==
    \A p, q \in DOMAIN trackedPids :
        p # q => Range(trackedPids[p].ThreadIDs)
                   \cap Range(trackedPids[q].ThreadIDs) = {}

\* A RegisterPID call at its return.
RegisterDone == mu.op = "done" /\ mu.call = "RegisterPID"

\* What a successful RegisterPID leaves in the registry: one new entry for
\* pid with the snapshot, the other entries as they were; and it returns the
\* snapshot's length.
RegisterStored ==
    /\ mu.n = Len(mu.tids)
    /\ mu.pid \notin DOMAIN mu.reg
    /\ DOMAIN trackedPids = DOMAIN mu.reg \cup {mu.pid}
    /\ trackedPids[mu.pid].ParentPID = mu.pid
    /\ trackedPids[mu.pid].ThreadIDs = mu.tids
    /\ \A p \in DOMAIN mu.reg : trackedPids[p] = mu.reg[p]

\* C6: RegisterPID of an unregistered pid with a readable task directory,
\* all inserts succeeding, returns the snapshot's length, stores one new
\* entry with the snapshot, changes no other entry, and every snapshot tid
\* whose thread has not exited meanwhile is in tracked_pids.
C6_RegisterSuccess ==
    RegisterDone /\ mu.err = "" =>
        /\ RegisterStored
        /\ \A tid \in Range(mu.tids) : Alive(tid) => tid \in tracked_pids

\* A registration beside an older entry has returned, and a thread of its
\* snapshot has exited during the call and is not in the map.
C6_Witness ==
    /\ RegisterDone /\ mu.err = ""
    /\ mu.reg # << >>
    /\ \E tid \in Range(mu.tids) : tid \notin tracked_pids

\* C6 as stated: every snapshot tid is in tracked_pids at the return.
C6_AllSnapshotInMap ==
    RegisterDone /\ mu.err = "" =>
        /\ RegisterStored
        /\ Range(mu.tids) \subseteq tracked_pids

\* C7: RegisterPID of a pid that is in the registry returns
\* AlreadyRegistered and leaves the registry and tracked_pids as they were.
C7_AlreadyRegistered ==
    RegisterDone /\ mu.pid \in DOMAIN mu.reg =>
        /\ mu.err = "AlreadyRegistered"
        /\ mu.n = 0
        /\ trackedPids = mu.reg
        /\ tracked_pids = mu.map

\* A registered pid with several recorded threads was registered again.
C7_Witness ==
    /\ RegisterDone /\ mu.err = "AlreadyRegistered"
    /\ Len(trackedPids[mu.pid].ThreadIDs) > 1
    /\ tracked_pids # {}

\* C8: RegisterPID of an unregistered pid without a /proc/<pid>/task
\* directory returns NotFound, creates no entry and inserts nothing.
C8_NotFound ==
    RegisterDone /\ mu.pid \notin DOMAIN mu.reg /\ ~mu.found =>
        /\ mu.err = "NotFound"
        /\ mu.n = 0
        /\ trackedPids = mu.reg
        /\ tracked_pids = mu.map

\* A process that has exited was registered, with other keys in the map.
C8_Witness ==
    /\ RegisterDone /\ mu.err = "NotFound"
    /\ mu.pid \in Tids /\ task[mu.pid].st = "dead"
    /\ tracked_pids # {}

\* C9: Register rollback.  A RegisterPID whose insert failed returns
\* KernelMapError, creates no entry, and the keys that were in the map and
\* that it had not created are still in the map.
C9_RollbackOnlyInserted ==
    RegisterDone /\ mu.err = "KernelMapError" =>
        /\ trackedPids = mu.reg
        /\ (mu.map \ mu.keys) \subseteq tracked_pids

\* An UnregisterPID call at its return.
UnregisterDone == mu.op = "done" /\ mu.call = "UnregisterPID"

\* C10: UnregisterPID of a registered pid returns nil also when deletes
\* failed; pid is not in the registry afterwards, every tid whose delete
\* succeeded is not in tracked_pids, and the other entries are as they were.
C10_UnregisterSucceeds ==
    UnregisterDone /\ mu.pid \in DOMAIN mu.reg =>
        /\ mu.err = ""
        /\ mu.pid \notin DOMAIN trackedPids
        /\ DOMAIN trackedPids = DOMAIN mu.reg \ {mu.pid}
        /\ \A p \in DOMAIN trackedPids : trackedPids[p] = mu.reg[p]
        /\ mu.keys \cap tracked_pids = {}

\* An unregistration beside another entry has returned; one Delete
\* succeeded and another failed.
C10_Witness ==
    /\ UnregisterDone /\ mu.err = ""
    /\ trackedPids # << >>
    /\ mu.keys # {}
    /\ mu.keys # Range(mu.tids)

\* C11: UnregisterPID of a pid that is not in the registry returns
\* NotRegistered and leaves the registry and tracked_pids as they were.
C11_NotRegistered ==
    UnregisterDone /\ mu.pid \notin DOMAIN mu.reg =>
        /\ mu.err = "NotRegistered"
        /\ trackedPids = mu.reg
        /\ tracked_pids = mu.map

\* A pid whose tid is a key of the map, but which is not in the registry
\* while another pid is, was unregistered.
C11_Witness ==
    /\ UnregisterDone /\ mu.err = "NotRegistered"
    /\ mu.pid \in tracked_pids
    /\ trackedPids # << >>

C13_SweptWithinInterval ==
    exists(1) /\ ~processExists(1) => timer.dead <= opts.TrackingInterval

\* C14: Bounded queue with non-blocking producer.  eventChan never holds
\* more than its capacity; every event the reader decoded is in the queue,
\* was received by the dispatcher or was dropped, and a drop happens only
\* on a full queue; the reader can always take the next ring record,
\* whatever the queue holds.
C14_BoundedNonBlocking ==
    /\ Len(queue) <= QueueCap
    /\ Len(hist.read) = Len(hist.taken) + Len(queue) + out.dropped
    /\ hist.dropLen \subseteq {QueueCap}
    /\ Running /\ ring # << >> /\ Len(hist.read) < MaxEvents =>
         ENABLED readRingBuffer

\* The queue is full, the reader has dropped an event and a record is
\* waiting on the ring.
C14_Witness ==
    /\ Len(queue) = QueueCap
    /\ out.dropped > 0
    /\ ring # << >>
    /\ Len(hist.read) < MaxEvents

\* C15: Drop policy.  A write of a tracked thread that passes the FD filter
\* and finds no room on the ring is counted: the probe leaves a drop
\* counter, or any other user-visible count, changed.
C15_RingLossCounted ==
    lastWrite.path = "ring_full" => out # lastWrite.out

\* s is t with some elements left out, in the same order.
RECURSIVE IsSubseq(_, _)
IsSubseq(s, t) ==
    IF s = << >> THEN TRUE
    ELSE IF t = << >> THEN FALSE
    ELSE IF Head(s) = Head(t) THEN IsSubseq(Tail(s), Tail(t))
    ELSE IsSubseq(s, Tail(t))

\* The lines of a sequence of events.
Lines(evs) == [i \in 1..Len(evs) |-> String(evs[i])]

\* C16: Order preservation.  Every sink receives the events in the order
\* the dispatcher received them: stdout and the file writer their lines,
\* the remote endpoint the events that were pushed; and the events go
\* through the queue in the order the reader read them.
C16_OrderPreserved ==
    /\ out.stdout = Lines(hist.taken)
    /\ out.file = Lines(hist.taken)
    /\ IsSubseq(out.loki, hist.taken)
    /\ IsSubseq(hist.taken \o queue, hist.read)

\* C17: Counter monotonicity.  write_tracer_write_calls_total equals the
\* number of events the dispatcher has received, each counted once whether
\* its file write failed or not; events dropped at the full queue and
\* events still queued are not counted.  (The received events only grow,
\* so the counter never decreases.)
C17_WriteCallsCounted ==
    /\ out.writeCalls = Len(hist.taken)
    /\ out.writeCalls = Len(hist.read) - Len(queue) - out.dropped

\* Events were dispatched, the file write of one of them failed, and an
\* event was dropped at the full queue.
C17_Witness ==
    /\ out.writeCalls > 1
    /\ out.fileErrs > 0
    /\ out.dropped > 0

\* C18: Dispatcher fan-out.  For each event it received the dispatcher has
\* written one line to stdout, or none with --no-stdout, has handed the
\* line to the file writer, and has started a push of the event exactly
\* when a Loki endpoint is configured.
C18_FanOut ==
    /\ out.stdout = IF opts.SilenceStdout THEN << >> ELSE Lines(hist.taken)
    /\ out.file = Lines(hist.taken)
    /\ Cardinality({g.n : g \in out.pushes}) + Len(out.loki) <=
         (IF opts.LokiEndpoint = "" THEN 0 ELSE Len(hist.taken))
    /\ opts.LokiEndpoint # "" =>
         \A g \in out.pushes : g.n \in 1..Len(hist.taken) /\ g.ev = hist.taken[g.n]

\* C19: Rotation invariant.  When no file existed at start, after k
\* rotations there are at most min(k+1, max_backups+1) files named <path>
\* or <path>.N; and after every Write has returned the current file holds
\* at most max_records_per_file lines.
C19_RotationInvariant ==
    /\ ~fhist.pre =>
          Cardinality(DOMAIN fs) <=
              Min({fhist.rotations + 1, EffMaxBackups(fw.maxBackups) + 1})
    /\ fhist.written > 0 =>
          0 \in DOMAIN fs /\ Len(fs[0]) <= fw.maxRecords

\* The lines a..b in the order they were written.
Block(a, b) == [j \in 1..(b - a + 1) |-> a + j - 1]

\* C20: Rotation keeps every record in age order without clobbering.
\* Starting with no file at <path>, after n Writes with threshold m the
\* writer has rotated k = n div m times, the current file holds the newest
\* n mod m lines, and <path>.i holds the i-th most recent full block of m
\* lines for every i up to min(k, max_backups): no block is lost before its
\* index would exceed max_backups.  (With m = 3 and n = 10: one line in the
\* current file and three lines in each of .1, .2, .3.)
C20_BlocksInAgeOrder ==
    (~fhist.pre /\ fhist.written > 0) =>
        LET m == fw.maxRecords
            n == fhist.written
            k == fhist.rotations
            kept == Min({k, EffMaxBackups(fw.maxBackups)})
        IN /\ k = n \div m
           /\ DOMAIN fs = 0..kept
           /\ fs[0] = Block(k * m + 1, n)
           /\ \A i \in 1..kept : fs[i] = Block((k - i) * m + 1, (k - i + 1) * m)

\* C21: Decoder length check.  Of the samples the ring reader has taken,
\* exactly those whose length is not EventSize (304), shorter or longer,
\* were rejected with a logged parse failure; the others, in order, are the
\* events the reader decoded; and the reader goes on with the next sample.
C21_LengthCheck ==
    /\ \A i \in 1..Len(hist.raw) :
         (hist.raw[i].len # EventSize) <=> (i \in hist.parseErrs)
    /\ Len(hist.read) = Len(hist.raw) - Cardinality(hist.parseErrs)
    /\ (ring # << >> /\ Len(hist.raw) < MaxEvents) => ENABLED readRingBuffer

\* C22: Bounded payload.  For every event and every count, String does not
\* fail, and the data it renders is the first min(count, 256) bytes of the
\* data field without their trailing line feeds and carriage returns.
C22_BoundedPayload ==
    /\ codec.step # "panic"
    /\ codec.step \in {"formatted", "parsed"} =>
         LET first == SubSeq(codec.e.Data, 1, DataLen(codec.e.Count))
             n == Len(codec.data)
         IN /\ n <= Len(first)
            /\ codec.data = SubSeq(first, 1, n)
            /\ \A i \in (n + 1)..Len(first) : first[i] \in {10, 13}
            /\ n > 0 => codec.data[n] \notin {10, 13}

\* C27: Round-trip.  Parsing the line String produced recovers timestamp,
\* pid, tid, fd and count exactly, and data byte for byte: the first
\* min(count, 256) bytes of the payload without trailing line feeds and
\* carriage returns, whatever the bytes are.
C27_RoundTrip ==
    codec.step = "parsed" =>
        /\ codec.parsed.Timestamp = codec.e.Timestamp
        /\ codec.parsed.PID = codec.e.PID
        /\ codec.parsed.TID = codec.e.TID
        /\ codec.parsed.FD = codec.e.FD
        /\ codec.parsed.Count = codec.e.Count
        /\ codec.parsed.data =
             TrimRight(SubSeq(codec.e.Data, 1, DataLen(codec.e.Count)))

\* C23: POST /pids.  The answer is 201 exactly when RegisterPID was called
\* and returned no error, and then the pid is registered and the thread
\* count of the response is the one RegisterPID returned; it is 400 with an
\* error message when the body is not JSON, the pid is missing or zero, the
\* pid was already registered or the process did not exist, and then the
\* registry and the kernel map are as the request found them.
C23_PostPids ==
    (http.st = "answered" /\ http.method = "POST") =>
        LET called == http.res.op = "done"
        IN /\ http.status \in {201, 400}
           /\ (http.status = 201) <=> (called /\ http.res.err = "")
           /\ http.status = 201 =>
                /\ http.pid \in DOMAIN trackedPids
                /\ http.threads = http.res.n
                /\ http.threads = Len(trackedPids[http.pid].ThreadIDs)
           /\ http.status = 400 => http.error # ""
           /\ (~http.ok \/ http.pid = 0 \/ http.pid \in DOMAIN http.reg
                  \/ ~http.res.found) =>
                /\ http.status = 400
                /\ trackedPids = http.reg
                /\ tracked_pids = http.map

\* POST /pids for a process of several threads was answered 201.
C23_Witness ==
    /\ http.st = "answered"
    /\ http.method = "POST"
    /\ http.status = 201
    /\ http.threads > 1


\* C24: DELETE /pids/<pid> is answered 200 if and only if pid was
\* registered, and then it is registered no more; otherwise 404 with the
\* registry as it was.  GET /pids/<pid> is answered 200 with the pid, thread
\* count and registration time of the entry if and only if pid is
\* registered, otherwise 404, and leaves the registry and the kernel map as
\* they were.
C24_PidByID ==
    (http.st = "answered" /\ http.method \in {"DELETE", "GET"} /\ http.ok) =>
        LET was == http.pid \in DOMAIN http.reg
        IN /\ http.status = IF was THEN 200 ELSE 404
           /\ (http.method = "DELETE" /\ was) => http.pid \notin DOMAIN trackedPids
           /\ (http.method = "DELETE" /\ ~was) => trackedPids = http.reg
           /\ http.method = "GET" =>
                /\ trackedPids = http.reg
                /\ tracked_pids = http.map
                /\ was => http.info =
                            [PID |-> http.pid,
                             ThreadCount |-> Len(http.reg[http.pid].ThreadIDs),
                             RegisteredAt |-> http.reg[http.pid].RegisteredAt]

\* A registered pid was deleted through the API.
C24_Witness ==
    /\ http.st = "answered"
    /\ http.method = "DELETE"
    /\ http.status = 200
    /\ Len(http.reg[http.pid].ThreadIDs) > 1


\* C25: Orderly shutdown.  When the dispatcher has stopped it has delivered
\* the events that were in the queue when cancellation was triggered; when
\* the process has exited after a shutdown the output file has been closed;
\* and no link is closed and the collection is not closed before the
\* dispatcher has stopped and closed the file.
C25_OrderlyShutdown ==
    ~proc.err =>
        /\ proc.dispatcher = "stopped" => Len(hist.taken) >= proc.due
        /\ proc.step = "exited" => proc.fwClosed
        /\ (proc.closes # << >> \/ proc.coll = "closed") =>
             (proc.dispatcher = "stopped" /\ proc.fwClosed)

\* C26: Loader failure semantics.  When Load has returned an error, the
\* start-up is aborted, the links that were attached have been closed in
\* the reverse of the order of their attachment, and the collection, when
\* it was created, is closed.
C26_LoaderFailure ==
    proc.err =>
        /\ proc.step \in {"failed", "exited"}
        /\ proc.coll # "open"
        /\ Len(proc.closes) = Len(proc.links)
        /\ \A i \in 1..Len(proc.links) :
             proc.closes[i] = proc.links[Len(proc.links) + 1 - i]

\* C28: Fork hook.  In every step in which a task p creates a child c, c
\* becomes a key of the kernel map if and only if p is a key at that moment
\* and the map has room; no other key is added or removed, and when p is
\* not a key the map is left as it is.
C28_ForkHook ==
    [][\A c \in Tids :
         (task[c].st = "unborn" /\ task'[c].st = "alive") =>
            LET p == task'[c].forker
                room == Cardinality(tracked_pids) < MAX_TRACKED_THREADS
            IN /\ Alive(p)
               /\ c \notin tracked_pids
               /\ tracked_pids' = IF p \in tracked_pids /\ room
                                  THEN tracked_pids \cup {c}
                                  ELSE tracked_pids]_vars

\* A tracked thread other than the first created a child that the hook
\* enrolled, while a child of an untracked task is not in the map.
C28_Witness ==
    \E c, d \in Tids :
        /\ Alive(c) /\ task[c].forker # 0 /\ c \in tracked_pids
        /\ Alive(d) /\ task[d].forker # 0 /\ d \notin tracked_pids
        /\ task[d].forker \notin tracked_pids

\* C29: Exit hook.  A thread that has exited is not a key of the kernel
\* map, whatever the interleaving of its exit hook with the fork hook and
\* with RegisterPID, RefreshThreads and the sweep.
C29_NoDeadTids ==
    \A t \in Tids : task[t].st = "dead" => t \notin tracked_pids

\* C30: RefreshThreads.  On a registered pid the call appends to ThreadIDs
\* exactly the tids whose insert succeeded: the tids recorded before stay
\* recorded, in place, a tid whose insert failed is not recorded, and the
\* call returns the number of tids added; on a pid that is not registered
\* it fails and leaves the registry and the kernel map as they were.
C30_RefreshThreads ==
    (mu.op = "done" /\ mu.call = "RefreshThreads") =>
        IF mu.pid \notin DOMAIN mu.reg
        THEN mu.err # "" /\ trackedPids = mu.reg /\ tracked_pids = mu.map
        ELSE mu.err = "" =>
               LET old == mu.reg[mu.pid].ThreadIDs
                   new == trackedPids[mu.pid].ThreadIDs
               IN /\ Len(new) = Len(old) + Cardinality(mu.keys)
                  /\ SubSeq(new, 1, Len(old)) = old
                  /\ Range(new) = Range(old) \cup mu.keys
                  /\ mu.n = Cardinality(mu.keys)

\* C31: Bulk enrollment covers all current threads.  When RegisterPID(P)
\* returns without error, every thread of P's thread group that is alive at
\* the return is a key of tracked_pids, also a thread P spawned between the
\* snapshot of /proc/<P>/task and the insert of the spawning thread's tid.
C31_BulkEnrollment ==
    (RegisterDone /\ mu.err = "") => Group(mu.pid) \subseteq tracked_pids

\* The callers that have made their call, and those among them that called
\* call.
Made == {c \in Callers : callers[c].st # "idle"}

MadeCall(call) == {c \in Made : callers[c].call = call}

\* The calls of call are concurrent calls for one pid, made while the pid
\* was (in = TRUE) or was not (in = FALSE) in the registry, all have
\* returned, and no call that changes the registry otherwise was made.
ConcurrentCalls(call, in) ==
    /\ MadeCall(call) # {}
    /\ \A c \in MadeCall(call) : callers[c].st = "returned" /\ callers[c].was = in
    /\ \A c \in Made : callers[c].call \in {call, "RefreshThreads", "List"}

\* C32: Registry mutations are serialized.  At most one goroutine is
\* between the Lock and the Unlock of RegisterPID, UnregisterPID,
\* RefreshThreads or checkLiveness, it is the one whose call is in
\* progress, and no List runs meanwhile; of the concurrent RegisterPID(p)
\* calls for an unregistered p that is alive when each begins, exactly one
\* returns no error and the others AlreadyRegistered; of the concurrent
\* UnregisterPID(p) calls for a registered p exactly one returns no error
\* and the others NotRegistered.
C32_Serialized ==
    /\ \A c, d \in Holders(callers) :
         c # d => callers[c].call = "List" /\ callers[d].call = "List"
    /\ mu # Idle => \E c \in Holders(callers) : callers[c].call # "List"
    /\ (/\ ConcurrentCalls("RegisterPID", FALSE)
        /\ \A c \in MadeCall("RegisterPID") : callers[c].found)
       => \E c \in MadeCall("RegisterPID") :
            /\ callers[c].err = ""
            /\ \A d \in MadeCall("RegisterPID") \ {c} :
                 callers[d].err = "AlreadyRegistered"
    /\ ConcurrentCalls("UnregisterPID", TRUE)
       => \E c \in MadeCall("UnregisterPID") :
            /\ callers[c].err = ""
            /\ \A d \in MadeCall("UnregisterPID") \ {c} :
                 callers[d].err = "NotRegistered"

\* Every goroutine called RegisterPID(1) while process 1 was not in the
\* registry, and all the calls have returned.
C32_Witness ==
    /\ MadeCall("RegisterPID") = Callers
    /\ ConcurrentCalls("RegisterPID", FALSE)
    /\ \A c \in Callers : callers[c].found

\* The entries of a registry.
Entries(reg) == {reg[p] : p \in DOMAIN reg}

\* C33: List returns a consistent snapshot.  What List has returned is the
\* content of the registry at the instant its read lock was taken, each
\* entry once, whatever the registry has become since; no RegisterPID,
\* UnregisterPID, RefreshThreads or sweep is in progress while List copies;
\* the total of GET /pids is the number of processes listed and each
\* thread_count is the length of that entry's ThreadIDs at that instant.
C33_ListSnapshot ==
    \A c \in MadeCall("List") :
        /\ callers[c].st = "in" =>
              /\ mu = Idle
              /\ callers[c].at = trackedPids
              /\ Range(callers[c].res) \subseteq Entries(trackedPids)
        /\ callers[c].st = "returned" =>
              LET res == callers[c].res
                  at == callers[c].at
                  resp == callers[c].resp
              IN /\ Range(res) = Entries(at)
                 /\ Len(res) = Cardinality(DOMAIN at)
                 /\ callers[c].n = Len(res)
                 /\ resp.total = Len(res)
                 /\ Len(resp.processes) = Len(res)
                 /\ \A i \in 1..Len(res) :
                      /\ resp.processes[i].PID \in DOMAIN at
                      /\ resp.processes[i].ThreadCount =
                           Len(at[resp.processes[i].PID].ThreadIDs)
                      /\ resp.processes[i].RegisteredAt =
                           at[resp.processes[i].PID].RegisteredAt

\* List has returned the entry of process 1, and the registry has lost it
\* since.
C33_Witness ==
    \E c \in MadeCall("List") :
        /\ callers[c].st = "returned"
        /\ callers[c].resp.total = 1
        /\ trackedPids = << >>

\* C34: The remote sink is best effort and never stalls the pipeline.  The
\* dispatcher can take the next event whatever pushes are in flight; every
\* event it received has reached stdout and the file writer, whether its
\* push and the pushes before it are in flight, failed or delivered; and
\* each event is pushed at most once: with a Loki endpoint every received
\* event has one push, in flight or made, a failed one is not made again,
\* and without an endpoint there is none.
C34_BestEffortPush ==
    /\ (queue # << >> /\ lastWrite.path = "none") => ENABLED processEvents
    /\ out.stdout = Lines(hist.taken)
    /\ out.file = Lines(hist.taken)
    /\ Len(out.loki) <= out.posts
    /\ \A g, h \in out.pushes : g.n = h.n => g = h
    /\ out.posts + Cardinality(out.pushes) =
         (IF opts.LokiEndpoint = "" THEN 0 ELSE Len(hist.taken))

\* A push has failed, another is in flight, and the events received since
\* have reached stdout and the file writer.
C34_Witness ==
    /\ out.posts > Len(out.loki)
    /\ out.pushes # {}
    /\ Len(out.stdout) > out.posts + 1
    /\ Len(out.file) > out.posts + 1

\* What holds after every Write on a failing file system: a failed open
\* leaves the writer without a file; a Write that finds the writer without
\* a file calls open; a Write that returned an error has not rotated and
\* has not advanced the record counter (count is as the call found it, or
\* 0 when the call opened the file).
WriteErrorsKept ==
    /\ fhist.last.err = "open" => ~fw.file
    /\ (fhist.written > 0 /\ ~fhist.last.file) => fhist.last.opened
    /\ fhist.last.err # "" =>
         /\ fhist.rotations = fhist.last.rotations
         /\ fw.count = (IF fhist.last.opened /\ fhist.last.err = "write"
                        THEN 0 ELSE fhist.last.count)

SweepDone == mu.op = "done" /\ mu.call = "checkLiveness"

\* C36: Liveness sweep frame.  A sweep adds no entry; it removes the entry
\* of every parent whose /proc/<pid> is gone, and the tids of that entry
\* from the kernel map; the entry of a parent that is alive is unchanged,
\* and so are its tids in the kernel map; and no other key of the map is
\* touched.
C36_SweepFrame ==
    SweepDone =>
        /\ DOMAIN trackedPids \subseteq DOMAIN mu.reg
        /\ tracked_pids \subseteq mu.map
        /\ \A p \in DOMAIN mu.reg :
             IF processExists(p)
             THEN /\ p \in DOMAIN trackedPids
                  /\ trackedPids[p] = mu.reg[p]
                  /\ Range(mu.reg[p].ThreadIDs) \cap mu.map \subseteq tracked_pids
             ELSE /\ p \notin DOMAIN trackedPids
                  /\ Range(mu.reg[p].ThreadIDs) \cap tracked_pids = {}
        /\ mu.map \ tracked_pids \subseteq
             UNION {Range(mu.reg[p].ThreadIDs) : p \in Dead(mu.reg)}

\* Task t belongs to the lineage of process P: it is a thread of P, or the
\* task that created it belongs to the lineage of P.
RECURSIVE InLineage(_, _)
InLineage(t, P) ==
    /\ t \in Tids
    /\ task[t].st # "unborn"
    /\ \/ task[t].tgid = P
       \/ InLineage(task[t].forker, P)

\* The parents that the call at its return point took out of the registry.
Removed == DOMAIN mu.reg \ DOMAIN trackedPids

\* C37: Tracing follows the registry.  When UnregisterPID or checkLiveness
\* returns having removed parent P, no tid of P's lineage is a key of
\* tracked_pids, unless it is in the lineage of a parent still registered.
C37_TracingFollowsRegistry ==
    (UnregisterDone \/ SweepDone) /\ mu.err = "" =>
        \A P \in Removed : \A t \in tracked_pids :
            InLineage(t, P) =>
                \E Q \in DOMAIN trackedPids : InLineage(t, Q)

\* The current file holds a line that was in <path> before this run.
HoldsOldLine ==
    /\ 0 \in DOMAIN fs
    /\ \E j \in 1..Len(fs[0]) : fs[0][j] \in Range(OldFile[0])

\* C38: The file sink never appends to content that was at <path> before
\* the run.  Started with a file at <path>, after a Write the current file
\* holds no line of it; and after the first Write, when it did not rotate,
\* <path>.1 is the old file, the current file holds the one new line and
\* the record counter is 1.
C38_FreshFile ==
    fhist.pre /\ fhist.written > 0 =>
        /\ ~HoldsOldLine
        /\ fhist.written = 1 /\ fhist.rotations = 0 =>
              /\ fs[0] = <<1>>
              /\ fw.count = 1
              /\ 1 \in DOMAIN fs /\ fs[1] = OldFile[0]

\* The long-running goroutines have returned, or the process has exited.
Stopped(g) == proc[g] = "stopped" \/ proc.step = "exited"

AllStopped ==
    \A g \in {"dispatcher", "reader", "sweeper", "counter"} : Stopped(g)

\* A step in which no goroutine that has taken its ctx.Done case (or, the
\* reader, has seen the closed ring) touches what it works on: the
\* dispatcher the sinks, the sweeper the registry and the map (whose other
\* changes come with a task that exits), the counter its gauge; the
\* reader takes nothing off the ring and adds nothing to the queue.
QuietStep ==
    /\ proc.dispatcher = "stopped" =>
          /\ out'.stdout = out.stdout /\ out'.file = out.file
          /\ out'.writeCalls = out.writeCalls /\ out'.pushes = out.pushes
          /\ fs' = fs /\ hist'.taken = hist.taken
    /\ proc.sweeper = "stopped" =>
          /\ trackedPids' = trackedPids
          /\ tracked_pids' # tracked_pids => task' # task
    /\ proc.counter = "stopped" => out'.tracked = out.tracked
    /\ proc.reader = "stopped" =>
          /\ hist'.raw = hist.raw /\ hist'.read = hist.read
          /\ Len(queue') <= Len(queue) /\ Len(ring') >= Len(ring)

\* C39: Cancellation reaches every long-running task.  Once the context is
\* cancelled, the dispatcher, the ring reader (which the closing of the
\* ring reader unblocks), the liveness sweeper and the counting ticker each
\* eventually return; and none of them changes the registry, the kernel
\* map or a sink after it has seen the cancellation.
C39_CancellationReachesAll ==
    /\ proc.cancelled ~> AllStopped
    /\ [][QuietStep]_vars

\* The context is cancelled, the four goroutines have returned while main
\* has not begun its deferred calls, and the dispatcher has left an event
\* in the queue.
C39_Witness ==
    /\ proc.cancelled
    /\ proc.step = "run"
    /\ \A g \in {"dispatcher", "reader", "sweeper", "counter"} :
         proc[g] = "stopped"
    /\ queue # << >>

====
